---- MODULE Spec2Model ----
(***************************************************************************)
(* efficio-backend: the in-memory SSE connection registry and publisher   *)
(* (src/utils/sseManager.js), the activity emitter                        *)
(* (src/utils/activityEmitter.js) and the task / group controllers that   *)
(* decide who receives which server-sent event.                           *)
(***************************************************************************)
EXTENDS Integers, Sequences, FiniteSets, TLC

(***************************************************************************)
(* Bounds                                                                  *)
(***************************************************************************)
NumUsers == 3

NumSseUsers == 2

NumChannels == 4

MaxAssignees == 2

\* longest collaborators array a group is grown to
MaxMembers == 3

AllUserIds == <<"alice", "bob", "carol", "dave", "erin", "frank">>

AllChannels == <<"res1", "res2", "res3", "res4", "res5", "res6">>

\* user identities (auth0Id strings)
Users == {AllUserIds[i] : i \in 1..NumUsers}

\* response objects of open /stream requests
Channels == {AllChannels[i] : i \in 1..NumChannels}

\* a userId argument may be falsy (undefined / empty string)
NoUser == ""

\* the identities that open streams in the registry specifications
SseUsers == {AllUserIds[i] : i \in 1..NumSseUsers}

UserArgs == SseUsers \cup {NoUser}

\* every response object belongs to the one /stream request that created it,
\* and that request has one req.auth0Id
Owner(res) ==
  LET i == CHOOSE j \in 1..NumChannels : AllChannels[j] = res
  IN  AllUserIds[((i - 1) % NumSseUsers) + 1]

\* the userId a caller passes along with res: the request's identity, or a
\* falsy value when authentication left it unset
CallerIds(res) == {Owner(res), NoUser}

\* outcome of the two res.write calls of one frame on one channel:
\* both succeed, the "event:" line throws, or the "data:" line throws
WriteOutcomes == {"ok", "throwEvent", "throwData"}

EventNames == {"activity", "notification", "notification_removed", "task_updated", "task_deleted"}

VARIABLES
  clientsMap,   \* sseManager.js clientsMap: userId -> Set of response objects
  op,           \* the operation that produced this state and what it returned
  pre,          \* clientsMap as it was before that operation
  writes,       \* the res.write calls made during that operation
  calls,        \* the sendEventToUser calls made during that operation
  lastCall,     \* per (user, channel): the last of addClient / removeClient called
  groups,       \* Group collection: tag -> group document
  tasks,        \* Task collection: id -> task document
  streams,      \* per response object of GET /stream: connection, timer, frames
  requests,     \* the HTTP requests being handled step by step
  users,        \* User collection: the documents, in insertion order
  emitted,      \* every sendEventToUser call so far, with the channels open then
  frames,       \* every complete frame written so far: channel and event
  sessions,     \* TimeSession collection, in insertion order
  plans,        \* TimePlan collection: id -> plan document
  notifications,\* Notification collection, in insertion order
  summaries     \* DailySummary collection, in insertion order

vars == <<clientsMap, op, pre, writes, calls, lastCall, groups, tasks,
          streams, requests, users, emitted, frames,
          sessions, plans, notifications, summaries>>

(***************************************************************************)
(* Helpers                                                                 *)
(***************************************************************************)
RECURSIVE SetToSeq(_)
\* the iteration order of a JS Set, fixed arbitrarily
SetToSeq(S) ==
  IF S = {} THEN <<>>
  ELSE LET x == CHOOSE y \in S : TRUE IN <<x>> \o SetToSeq(S \ {x})

Range(s) == {s[i] : i \in 1..Len(s)}

\* number of elements of sequence s that satisfy Test
CountIf(s, Test(_)) == Cardinality({i \in 1..Len(s) : Test(s[i])})

\* clientsMap.get(userId): the Set, or {} standing for undefined
ChannelsOf(m, u) == IF u \in DOMAIN m THEN m[u] ELSE {}

MapSet(m, u, set) == [k \in DOMAIN m \cup {u} |-> IF k = u THEN set ELSE m[k]]

MapDelete(m, u) == [k \in DOMAIN m \ {u} |-> m[k]]

(***************************************************************************)
(* sseManager.js                                                           *)
(***************************************************************************)
\* variant: the user's Set is replaced by a fresh one holding only res
addClientReplaces(m, userId, res) ==
  IF userId = NoUser THEN m
  ELSE MapSet(m, userId, {res})

\* addClient(userId, res)
addClient(m, userId, res) ==
  IF userId = NoUser THEN m
  ELSE MapSet(m, userId, ChannelsOf(m, userId) \cup {res})

\* variant: the key is not deleted when the Set becomes empty
removeClientKeepsKey(m, userId, res) ==
  IF userId = NoUser THEN [map |-> m, threw |-> FALSE]
  ELSE IF userId \notin DOMAIN m THEN [map |-> m, threw |-> FALSE]
  ELSE [map |-> MapSet(m, userId, m[userId] \ {res}), threw |-> FALSE]

\* removeClient(userId, res): the map afterwards and whether it threw
removeClient(m, userId, res) ==
  IF userId = NoUser THEN [map |-> m, threw |-> FALSE]
  ELSE IF userId \notin DOMAIN m THEN [map |-> m, threw |-> FALSE]
  ELSE LET set == m[userId] \ {res}
       IN  [map |-> IF set = {} THEN MapDelete(m, userId) ELSE MapSet(m, userId, set),
            threw |-> FALSE]

\* variant: a frame that went through is written a second time
FrameWritesTwice(res, eventName, outcome) ==
  IF outcome = "throwEvent"
  THEN <<[res |-> res, line |-> "event", eventName |-> eventName, threw |-> TRUE]>>
  ELSE IF outcome = "throwData"
  THEN <<[res |-> res, line |-> "event", eventName |-> eventName, threw |-> FALSE],
         [res |-> res, line |-> "data", eventName |-> eventName, threw |-> TRUE]>>
  ELSE <<[res |-> res, line |-> "event", eventName |-> eventName, threw |-> FALSE],
         [res |-> res, line |-> "data", eventName |-> eventName, threw |-> FALSE],
         [res |-> res, line |-> "event", eventName |-> eventName, threw |-> FALSE],
         [res |-> res, line |-> "data", eventName |-> eventName, threw |-> FALSE]>>

\* the res.write calls of one frame, in order, up to the first that throws
FrameWrites(res, eventName, outcome) ==
  IF outcome = "throwEvent"
  THEN <<[res |-> res, line |-> "event", eventName |-> eventName, threw |-> TRUE]>>
  ELSE IF outcome = "throwData"
  THEN <<[res |-> res, line |-> "event", eventName |-> eventName, threw |-> FALSE],
         [res |-> res, line |-> "data", eventName |-> eventName, threw |-> TRUE]>>
  ELSE <<[res |-> res, line |-> "event", eventName |-> eventName, threw |-> FALSE],
         [res |-> res, line |-> "data", eventName |-> eventName, threw |-> FALSE]>>

RECURSIVE sendLoopAborts(_, _, _, _)
\* variant: no try/catch inside the loop, the first throwing write ends it
sendLoopAborts(list, eventName, out, acc) ==
  IF list = <<>> THEN acc
  ELSE LET res == Head(list)
       IN  IF out[res] = "ok"
           THEN sendLoopAborts(Tail(list), eventName, out,
                  [set |-> acc.set, delivered |-> TRUE,
                   writes |-> acc.writes \o FrameWrites(res, eventName, "ok")])
           ELSE [set |-> acc.set \ {res}, delivered |-> acc.delivered,
                 writes |-> acc.writes \o FrameWrites(res, eventName, out[res])]

RECURSIVE sendLoopOptimistic(_, _, _, _)
\* variant: delivered is set before the writes are known to have gone through
sendLoopOptimistic(list, eventName, out, acc) ==
  IF list = <<>> THEN acc
  ELSE LET res == Head(list)
           next == [set |-> IF out[res] = "ok" THEN acc.set ELSE acc.set \ {res},
                    delivered |-> TRUE,
                    writes |-> acc.writes \o FrameWrites(res, eventName, out[res])]
       IN  sendLoopOptimistic(Tail(list), eventName, out, next)

RECURSIVE sendLoop(_, _, _, _)
\* the for loop of sendEventToUser over Array.from(set)
sendLoop(list, eventName, out, acc) ==
  IF list = <<>> THEN acc
  ELSE LET res == Head(list)
           next == IF out[res] = "ok"
                   THEN [set |-> acc.set, delivered |-> TRUE,
                         writes |-> acc.writes \o FrameWrites(res, eventName, "ok")]
                   ELSE [set |-> acc.set \ {res}, delivered |-> acc.delivered,
                         writes |-> acc.writes \o FrameWrites(res, eventName, out[res])]
       IN  sendLoop(Tail(list), eventName, out, next)

\* variant: an absent user gets an empty Set created on lookup
sendEventToUserCreatesEntry(m, userId, eventName, out) ==
  IF userId = NoUser THEN [map |-> m, ret |-> FALSE, writes |-> <<>>]
  ELSE IF ChannelsOf(m, userId) = {}
  THEN [map |-> MapSet(m, userId, {}), ret |-> FALSE, writes |-> <<>>]
  ELSE LET r == sendLoop(SetToSeq(m[userId]), eventName, out,
                         [set |-> m[userId], delivered |-> FALSE, writes |-> <<>>])
       IN  [map |-> IF r.set = {} THEN MapDelete(m, userId) ELSE MapSet(m, userId, r.set),
            ret |-> r.delivered,
            writes |-> r.writes]

\* sendEventToUser(userId, eventName, data): map afterwards, return value, writes
sendEventToUser(m, userId, eventName, out) ==
  IF userId = NoUser THEN [map |-> m, ret |-> FALSE, writes |-> <<>>]
  ELSE IF ChannelsOf(m, userId) = {} THEN [map |-> m, ret |-> FALSE, writes |-> <<>>]
  ELSE LET r == sendLoop(SetToSeq(m[userId]), eventName, out,
                         [set |-> m[userId], delivered |-> FALSE, writes |-> <<>>])
       IN  [map |-> IF r.set = {} THEN MapDelete(m, userId) ELSE MapSet(m, userId, r.set),
            ret |-> r.delivered,
            writes |-> r.writes]

RECURSIVE broadcastLoop(_, _, _)
broadcastLoop(list, eventName, out) ==
  IF list = <<>> THEN <<>>
  ELSE FrameWrites(Head(list)[2], eventName, out[Head(list)[2]])
         \o broadcastLoop(Tail(list), eventName, out)

\* broadcast(eventName, data): the writes; the map is never changed
broadcast(m, eventName, out) ==
  broadcastLoop(SetToSeq({p \in (DOMAIN m) \X Channels : p[2] \in m[p[1]]}),
                eventName, out)

\* getConnectedUsers()
getConnectedUsers(m) == DOMAIN m

(***************************************************************************)
(* Registry / publisher operations as actions                              *)
(***************************************************************************)
NoOp == [name |-> "init", userId |-> NoUser, res |-> "", eventName |-> "",
         ret |-> FALSE, threw |-> FALSE, out |-> <<>>, http |-> 0, arg |-> <<>>]

EmptyMap == [u \in {} |-> {}]

NoCalls == [u \in SseUsers, r \in Channels |-> "none"]

\* no GET /stream connection yet
NoStreams == [r \in {} |-> {}]

\* no request in progress
NoRequests == [q \in {} |-> {}]

\* the User collection before the first login
NoUserDocs == <<>>

\* nothing published, no frame written
NoFrames == <<>>

\* the collections of the time tracker and the notifications, empty
NoDocs == <<>>

NoPlans == [p \in {} |-> {}]

TrackerUnchanged == UNCHANGED <<sessions, plans, summaries>>

DeliveryUnchanged == UNCHANGED <<emitted, frames>>

InitExtra ==
  /\ emitted = NoFrames
  /\ frames = NoFrames
  /\ sessions = NoDocs
  /\ plans = NoPlans
  /\ notifications = NoDocs
  /\ summaries = NoDocs

ExtraUnchanged == DeliveryUnchanged /\ TrackerUnchanged /\ UNCHANGED notifications

\* what the registry and the handlers that run in one step leave alone
RestUnchanged == UNCHANGED <<streams, requests, users>> /\ ExtraUnchanged

DbUnchanged == UNCHANGED <<groups, tasks>> /\ RestUnchanged

AddClient(userId, res) ==
  /\ clientsMap' = addClient(clientsMap, userId, res)
  /\ pre' = clientsMap
  /\ op' = [NoOp EXCEPT !.name = "addClient", !.userId = userId, !.res = res]
  /\ writes' = <<>>
  /\ calls' = <<>>
  /\ DbUnchanged

RemoveClient(userId, res) ==
  LET r == removeClient(clientsMap, userId, res)
  IN  /\ clientsMap' = r.map
      /\ pre' = clientsMap
      /\ op' = [NoOp EXCEPT !.name = "removeClient", !.userId = userId, !.res = res,
                            !.threw = r.threw]
      /\ writes' = <<>>
      /\ calls' = <<>>
      /\ DbUnchanged

\* a call of sendEventToUser: the registry and what is remembered of it
Sending(userId, eventName, out) ==
  LET r == sendEventToUser(clientsMap, userId, eventName, out)
  IN  /\ clientsMap' = r.map
      /\ pre' = clientsMap
      /\ op' = [NoOp EXCEPT !.name = "sendEventToUser", !.userId = userId,
                            !.eventName = eventName, !.ret = r.ret, !.out = out]
      /\ writes' = r.writes
      /\ calls' = <<[userId |-> userId, eventName |-> eventName]>>

SendEventToUser(userId, eventName, out) ==
  /\ Sending(userId, eventName, out)
  /\ DbUnchanged

Broadcast(eventName, out) ==
  /\ clientsMap' = clientsMap
  /\ pre' = clientsMap
  /\ op' = [NoOp EXCEPT !.name = "broadcast", !.eventName = eventName, !.out = out]
  /\ writes' = broadcast(clientsMap, eventName, out)
  /\ calls' = <<>>
  /\ DbUnchanged

InitCommon ==
  /\ clientsMap = EmptyMap
  /\ op = NoOp
  /\ pre = EmptyMap
  /\ writes = <<>>
  /\ calls = <<>>
  /\ lastCall = NoCalls
  /\ streams = NoStreams
  /\ InitExtra
  /\ requests = NoRequests
  /\ users = NoUserDocs
  /\ groups = [t \in {} |-> {}]
  /\ tasks = [t \in {} |-> {}]

Init == InitCommon

\* the events the registry specification publishes (payloads are opaque)
SseEvents == {"task_updated"}

Next ==
  \/ \E r \in Channels : \E u \in CallerIds(r) : AddClient(u, r) /\ UNCHANGED lastCall
  \/ \E r \in Channels : \E u \in CallerIds(r) : RemoveClient(u, r) /\ UNCHANGED lastCall
  \/ \E u \in UserArgs, e \in SseEvents :
        \E out \in [ChannelsOf(clientsMap, u) -> WriteOutcomes] :
           SendEventToUser(u, e, out) /\ UNCHANGED lastCall
  \/ \E e \in SseEvents :
        \E out \in [UNION {clientsMap[u] : u \in DOMAIN clientsMap} -> WriteOutcomes] :
           Broadcast(e, out) /\ UNCHANGED lastCall

Spec == Init /\ [][Next]_vars

\* only addClient / removeClient calls, remembering the last one per pair
RegNext ==
  \/ \E r \in Channels : \E u \in CallerIds(r) :
        /\ AddClient(u, r)
        /\ lastCall' = IF u = NoUser THEN lastCall ELSE [lastCall EXCEPT ![u, r] = "add"]
  \/ \E r \in Channels : \E u \in CallerIds(r) :
        /\ RemoveClient(u, r)
        /\ lastCall' = IF u = NoUser THEN lastCall ELSE [lastCall EXCEPT ![u, r] = "remove"]

SpecReg == Init /\ [][RegNext]_vars

(***************************************************************************)
(* Documents of the store                                                  *)
(***************************************************************************)
Roles == {"viewer", "editor", "admin"}

\* the one group tag of the model, as stored (normalizeTag output)
TeamTag == "@team"

PersonalTag == "@personal"

NoGroups == [t \in {} |-> {}]

NoTasks == [t \in {} |-> {}]

\* position of the first element of s that satisfies Test, 0 when none
FirstIndex(s, Test(_)) ==
  IF \E i \in 1..Len(s) : Test(s[i])
  THEN CHOOSE i \in 1..Len(s) : Test(s[i]) /\ \A j \in 1..(i - 1) : ~Test(s[j])
  ELSE 0

\* Array.prototype.filter
Filter(s, Test(_)) == SelectSeq(s, Test)

\* query conditions on the collaborators array: each dotted-path condition
\* is met by any element of the array, not necessarily the same one
HasCollab(g, u) == \E i \in 1..Len(g.collaborators) : g.collaborators[i].userId = u

AnyRole(g, R) == \E i \in 1..Len(g.collaborators) : g.collaborators[i].role \in R

AnyStatus(g, S) == \E i \in 1..Len(g.collaborators) : g.collaborators[i].status \in S

\* every channel delivers: the handlers below are studied without write failures
AllOk == [r \in Channels |-> "ok"]

RECURSIVE PublishWith(_, _, _, _)
\* the sendEventToUser calls of one handler, made in order; out gives the
\* outcome of a write on each channel
PublishWith(m, list, out, acc) ==
  IF list = <<>> THEN [map |-> m, writes |-> acc]
  ELSE LET r == sendEventToUser(m, Head(list).userId, Head(list).eventName, out)
       IN  PublishWith(r.map, Tail(list), out, acc \o r.writes)

Publish(m, list, acc) == PublishWith(m, list, AllOk, acc)

Call(userId, eventName) == [userId |-> userId, eventName |-> eventName]

\* the sendEventToUser calls of a handler, its HTTP status; the store is
\* left to the caller
Publishing(name, actor, arg, http, published, out) ==
  LET r == PublishWith(clientsMap, published, out, <<>>)
  IN  /\ clientsMap' = r.map
      /\ pre' = clientsMap
      /\ writes' = r.writes
      /\ calls' = published
      /\ op' = [NoOp EXCEPT !.name = name, !.userId = actor, !.arg = arg, !.http = http,
                            !.out = out]
      /\ UNCHANGED lastCall

\* the one task of the task specifications
TaskId == "t1"

\* Notification.findOneAndUpdate({ userId, type: 'task_assigned', taskId }, ...,
\* { upsert: true })
upsertNotification(docs, userId) ==
  IF \E i \in 1..Len(docs) : docs[i].userId = userId /\ docs[i].taskId = TaskId
  THEN docs
  ELSE Append(docs, [userId |-> userId, type |-> "task_assigned", taskId |-> TaskId])

\* Notification.deleteMany({ userId, type: 'task_assigned', taskId })
deleteNotifications(docs, userId) ==
  LET Keep(d) == ~(d.userId = userId /\ d.taskId = TaskId)
  IN  SelectSeq(docs, Keep)

RECURSIVE storeNotifications(_, _)
\* the Notification writes of createTask / updateTask: each 'notification'
\* call follows the upsert for that user, each 'notification_removed' call
\* the deleteMany for that user
storeNotifications(docs, published) ==
  IF published = <<>> THEN docs
  ELSE LET c == Head(published)
           next == IF c.eventName = "notification"
                   THEN upsertNotification(docs, c.userId)
                   ELSE IF c.eventName = "notification_removed"
                   THEN deleteNotifications(docs, c.userId)
                   ELSE docs
       IN  storeNotifications(next, Tail(published))

\* the Notification collection after a handler; deleteTask deletes every
\* task_assigned notification of the task
notificationsAfter(docs, name, http, published) ==
  IF name = "deleteTask"
  THEN IF http = 200 THEN NoDocs ELSE docs
  ELSE IF name \in {"createTask", "updateTask"}
  THEN storeNotifications(docs, published)
  ELSE docs

RespondWith(name, actor, arg, http, published, out) ==
  /\ Publishing(name, actor, arg, http, published, out)
  /\ notifications' = notificationsAfter(notifications, name, http, published)
  /\ UNCHANGED <<streams, requests, users>>
  /\ DeliveryUnchanged
  /\ TrackerUnchanged

Respond(name, actor, arg, http, published) ==
  RespondWith(name, actor, arg, http, published, AllOk)

(***************************************************************************)
(* groupController: membership                                             *)
(***************************************************************************)
Member(userId, role, status) == [userId |-> userId, role |-> role, status |-> status]

\* createGroup: the owner is added as accepted admin, the collaborators of the
\* request body as pending
CreateGroup(actor, invited) ==
  IF TeamTag \in DOMAIN groups
  THEN /\ UNCHANGED <<groups, tasks>>
       /\ Respond("createGroup", actor, <<>>, 400, <<>>)
  ELSE /\ groups' = [t \in {TeamTag} |->
                       [owner |-> actor,
                        collaborators |-> <<Member(actor, "admin", "accepted")>> \o
                           [i \in 1..Len(invited) |->
                              Member(invited[i].userId, invited[i].role, "pending")]]]
       /\ UNCHANGED tasks
       /\ Respond("createGroup", actor, <<>>, 201, <<>>)

InviteUser(actor, userId, role) ==
  LET found == /\ TeamTag \in DOMAIN groups
               /\ \/ groups[TeamTag].owner = actor
                  \/ HasCollab(groups[TeamTag], actor) /\ AnyRole(groups[TeamTag], {"admin", "editor"})
      g == groups[TeamTag]
      IsTarget(c) == c.userId = userId
      i == FirstIndex(g.collaborators, IsTarget)
  IN  IF ~found
      THEN UNCHANGED <<groups, tasks>> /\ Respond("inviteUser", actor, <<>>, 404, <<>>)
      ELSE IF i = 0
      THEN /\ groups' = [groups EXCEPT ![TeamTag].collaborators =
                            Append(@, Member(userId, role, "pending"))]
           /\ UNCHANGED tasks
           /\ Respond("inviteUser", actor, <<userId>>, 200, <<>>)
      ELSE IF g.collaborators[i].status = "accepted"
      THEN UNCHANGED <<groups, tasks>> /\ Respond("inviteUser", actor, <<>>, 400, <<>>)
      ELSE /\ groups' = [groups EXCEPT ![TeamTag].collaborators[i] =
                            Member(userId, role, "pending")]
           /\ UNCHANGED tasks
           /\ Respond("inviteUser", actor, <<userId>>, 200, <<>>)

\* acceptInvitation / declineInvitation share their shape
Resolve(name, actor, status) ==
  LET found == /\ TeamTag \in DOMAIN groups
               /\ HasCollab(groups[TeamTag], actor)
               /\ AnyStatus(groups[TeamTag], {"pending"})
      g == groups[TeamTag]
      IsMine(c) == c.userId = actor /\ c.status = "pending"
      i == FirstIndex(g.collaborators, IsMine)
  IN  IF ~found
      THEN UNCHANGED <<groups, tasks>> /\ Respond(name, actor, <<>>, 404, <<>>)
      ELSE /\ groups' = IF i = 0 THEN groups
                        ELSE [groups EXCEPT ![TeamTag].collaborators[i].status = status]
           /\ UNCHANGED tasks
           /\ Respond(name, actor, <<>>, 200, <<>>)

AcceptInvitation(actor) == Resolve("acceptInvitation", actor, "accepted")

DeclineInvitation(actor) == Resolve("declineInvitation", actor, "declined")

ExitGroup(actor) ==
  LET found == /\ TeamTag \in DOMAIN groups
               /\ \/ groups[TeamTag].owner = actor
                  \/ HasCollab(groups[TeamTag], actor) /\ AnyStatus(groups[TeamTag], {"accepted"})
      Others(c) == c.userId # actor
  IN  IF ~found
      THEN UNCHANGED <<groups, tasks>> /\ Respond("exitGroup", actor, <<>>, 404, <<>>)
      ELSE IF groups[TeamTag].owner = actor
      THEN UNCHANGED <<groups, tasks>> /\ Respond("exitGroup", actor, <<>>, 400, <<>>)
      ELSE /\ groups' = [groups EXCEPT ![TeamTag].collaborators = Filter(@, Others)]
           /\ UNCHANGED tasks
           /\ Respond("exitGroup", actor, <<>>, 200, <<>>)

RemoveMember(actor, userId) ==
  LET found == /\ TeamTag \in DOMAIN groups
               /\ \/ groups[TeamTag].owner = actor
                  \/ HasCollab(groups[TeamTag], actor) /\ AnyRole(groups[TeamTag], {"admin"})
      Others(c) == c.userId # userId
  IN  IF ~found
      THEN UNCHANGED <<groups, tasks>> /\ Respond("removeMember", actor, <<userId>>, 404, <<>>)
      ELSE IF groups[TeamTag].owner = userId
      THEN UNCHANGED <<groups, tasks>> /\ Respond("removeMember", actor, <<userId>>, 400, <<>>)
      ELSE /\ groups' = [groups EXCEPT ![TeamTag].collaborators = Filter(@, Others)]
           /\ UNCHANGED tasks
           /\ Respond("removeMember", actor, <<userId>>, 200, <<>>)

\* role values of an updateMemberRole request body, the last one not a role
RoleInputs == {"viewer", "admin", "owner"}

UpdateMemberRole(actor, userId, role) ==
  LET found == /\ TeamTag \in DOMAIN groups
               /\ \/ groups[TeamTag].owner = actor
                  \/ HasCollab(groups[TeamTag], actor) /\ AnyRole(groups[TeamTag], {"admin"})
      IsTarget(c) == c.userId = userId
      i == FirstIndex(groups[TeamTag].collaborators, IsTarget)
      Refuse(http) == /\ UNCHANGED <<groups, tasks>>
                      /\ Respond("updateMemberRole", actor, <<userId>>, http, <<>>)
  IN  IF ~found THEN Refuse(404)
      ELSE IF role \notin Roles THEN Refuse(400)
      ELSE IF i = 0 THEN Refuse(404)
      ELSE IF groups[TeamTag].owner = userId /\ actor = userId THEN Refuse(400)
      ELSE /\ groups' = [groups EXCEPT ![TeamTag].collaborators[i].role = role]
           /\ UNCHANGED tasks
           /\ Respond("updateMemberRole", actor, <<userId>>, 200, <<>>)

(***************************************************************************)
(* activityEmitter.js and activityController.createActivity                *)
(***************************************************************************)
RECURSIVE Dedup(_, _)
\* insertion order of a JS Set built by add() calls in the order of s
Dedup(s, seen) ==
  IF s = <<>> THEN <<>>
  ELSE IF Head(s) \in seen THEN Dedup(Tail(s), seen)
  ELSE <<Head(s)>> \o Dedup(Tail(s), seen \cup {Head(s)})

\* variant: every collaborator is a recipient, whatever the status
emitActivityAllCollaborators(activity) ==
  LET raw == IF activity.groupTag # "" /\ activity.groupTag # PersonalTag
             THEN IF activity.groupTag \in DOMAIN groups
                  THEN LET g == groups[activity.groupTag]
                       IN  <<g.owner>> \o [i \in 1..Len(g.collaborators) |-> g.collaborators[i].userId]
                  ELSE <<>>
             ELSE <<activity.userId>>
      NotActor(u) == u # activity.userId
  IN  Filter(Dedup(raw, {}), NotActor)

\* emitActivity: the recipients, in the order they are published to
emitActivity(activity) ==
  LET Accepted(c) == c.status = "accepted"
      raw == IF activity.groupTag # "" /\ activity.groupTag # PersonalTag
             THEN IF activity.groupTag \in DOMAIN groups
                  THEN LET g == groups[activity.groupTag]
                           acc == Filter(g.collaborators, Accepted)
                       IN  <<g.owner>> \o [i \in 1..Len(acc) |-> acc[i].userId]
                  ELSE <<>>
             ELSE <<activity.userId>>
      NotActor(u) == u # activity.userId
  IN  Filter(Dedup(raw, {}), NotActor)

\* groupTag values of a createActivity request body (stored as sent)
ActivityTags == {"", PersonalTag, TeamTag, "@other"}

CreateActivity(actor, groupTag) ==
  LET rcpt == emitActivity([userId |-> actor, groupTag |-> groupTag])
  IN  /\ UNCHANGED <<groups, tasks>>
      /\ Respond("createActivity", actor, <<groupTag>>, 201,
                 [i \in 1..Len(rcpt) |-> Call(rcpt[i], "activity")])

(***************************************************************************)
(* taskController: createTask, updateTask, deleteTask, updateTaskStatus    *)
(***************************************************************************)
\* Each handler runs to its response in one step; the queries and writes it
\* sends to the store are taken to succeed.

Statuses == {"pending", "in-progress", "completed"}

\* groupTag values of a request body, before normalisation
RawTags == {"", "team", "@Team", PersonalTag}

ToLowerCase(tag) == IF tag = "@Team" THEN TeamTag ELSE tag

StartsWithAt(tag) == tag \in {"@Team", TeamTag, PersonalTag}

\* createTask / updateTask: prefix '@' when missing, then lower-case
NormalizeGroupTag(tag) == ToLowerCase(IF StartsWithAt(tag) THEN tag ELSE "@" \o tag)

UserIndex(u) == CHOOSE i \in 1..Len(AllUserIds) : AllUserIds[i] = u

\* assignedTo arrays of a request body: any identities, repeats included
\* (listed in one order only; the handlers do not depend on the order)
AssignInputs ==
  {s \in UNION {[1..n -> Users] : n \in 0..MaxAssignees} :
      \A i \in 1..(Len(s) - 1) : UserIndex(s[i]) <= UserIndex(s[i + 1])}

\* task-level collaborators arrays of a request body
TaskCollabInputs == {<<>>} \cup {<<[user |-> u, role |-> "editor"]>> : u \in Users}

\* group documents matching { tag, $or: [owner, collaborators.userId + status accepted] }
GroupAccess(tag, actor) ==
  /\ tag \in DOMAIN groups
  /\ \/ groups[tag].owner = actor
     \/ HasCollab(groups[tag], actor) /\ AnyStatus(groups[tag], {"accepted"})

IsEditorOf(task, actor) ==
  \E i \in 1..Len(task.collaborators) :
     task.collaborators[i].user = actor /\ task.collaborators[i].role \in {"editor", "admin"}

\* { "collaborators.user": actor, "collaborators.role": { $in: [...] } }
MatchesEditorQuery(task, actor) ==
  /\ \E i \in 1..Len(task.collaborators) : task.collaborators[i].user = actor
  /\ \E i \in 1..Len(task.collaborators) : task.collaborators[i].role \in {"editor", "admin"}

Calls(list, eventName) == [i \in 1..Len(list) |-> Call(list[i], eventName)]

\* variant: the actor is not taken out of the recipients
TaskRecipientsKeepActor(first, rest, actor) == Dedup(first \o rest, {})

\* new Set(), add() in the given order, delete(actor)
TaskRecipients(first, rest, actor) ==
  LET NotActor(u) == u # actor
  IN  Filter(Dedup(first \o rest, {}), NotActor)

\* what the last task handler saw: the owner, the assignees as read and as written
Seen(old, new) == <<[userId |-> new.userId, old |-> old.assignedTo, new |-> new.assignedTo]>>

CreateTask(actor, rawTag, assignedTo, collaborators, dueInPast) ==
  LET tag == NormalizeGroupTag(IF rawTag = "" THEN PersonalTag ELSE rawTag)
      task == [userId |-> actor, assignedTo |-> assignedTo, groupTag |-> tag,
               collaborators |-> collaborators, status |-> "pending"]
  IN  /\ TaskId \notin DOMAIN tasks
      /\ IF tag # PersonalTag /\ ~GroupAccess(tag, actor)
         THEN UNCHANGED <<groups, tasks>> /\ Respond("createTask", actor, <<>>, 403, <<>>)
         ELSE IF dueInPast
         THEN UNCHANGED <<groups, tasks>> /\ Respond("createTask", actor, <<>>, 400, <<>>)
         ELSE /\ tasks' = [t \in {TaskId} |-> task]
              /\ UNCHANGED groups
              /\ Respond("createTask", actor, Seen(task, task), 201,
                         Calls(task.assignedTo, "notification") \o
                         Calls(TaskRecipients(task.assignedTo, <<task.userId>>, actor),
                               "task_updated"))

\* the request bodies of updateTask: any one of these fields, or none of them
UpdateBodies ==
  {[field |-> "assignedTo", assignedTo |-> a, collaborators |-> <<>>, groupTag |-> "",
    status |-> ""] : a \in AssignInputs}
  \cup {[field |-> "collaborators", assignedTo |-> <<>>, collaborators |-> c, groupTag |-> "",
         status |-> ""] : c \in TaskCollabInputs}
  \cup {[field |-> "groupTag", assignedTo |-> <<>>, collaborators |-> <<>>, groupTag |-> g,
         status |-> ""] : g \in RawTags \ {""}}
  \cup {[field |-> "status", assignedTo |-> <<>>, collaborators |-> <<>>, groupTag |-> "",
         status |-> st] : st \in Statuses}
  \cup {[field |-> f, assignedTo |-> <<>>, collaborators |-> <<>>, groupTag |-> "",
         status |-> ""] : f \in {"title", "dueDate", "pastDueDate"}}

\* variant: the added assignees are computed as all new assignees
AddedAssigneesAll(old, new) == new

\* newAssigned.filter(a => !oldAssigned.includes(a))
AddedAssignees(old, new) ==
  LET NotOld(u) == u \notin Range(old) IN Filter(new, NotOld)

RemovedAssignees(old, new) ==
  LET NotNew(u) == u \notin Range(new) IN Filter(old, NotNew)

\* the store failures of one notification pass: Group.findOne rejects, the
\* Notification write for these users rejects
NoFailure == [groupThrows |-> FALSE, storeFails |-> {}]

\* variant: a rejected Notification write ends the pass
updateTaskCallsStopAtFailure(old, updated, actor, fail) ==
  LET added == AddedAssignees(old.assignedTo, updated.assignedTo)
      removed == RemovedAssignees(old.assignedTo, updated.assignedTo)
  IN  IF (added # <<>> /\ fail.groupThrows)
         \/ (Range(added) \cup Range(removed)) \cap fail.storeFails # {}
      THEN <<>>
      ELSE Calls(added, "notification") \o Calls(removed, "notification_removed") \o
           Calls(TaskRecipients(<<updated.userId>>, updated.assignedTo, actor), "task_updated")

\* updateTask, the pass after the update: notification to the added
\* assignees, notification_removed to the removed ones, task_updated; a
\* rejected Notification write skips that user, a rejected Group.findOne
\* leaves the pass
updateTaskCalls(old, updated, actor, fail) ==
  LET added == AddedAssignees(old.assignedTo, updated.assignedTo)
      removed == RemovedAssignees(old.assignedTo, updated.assignedTo)
      Written(u) == u \notin fail.storeFails
  IN  IF added # <<>> /\ fail.groupThrows THEN <<>>
      ELSE Calls(Filter(added, Written), "notification") \o
           Calls(Filter(removed, Written), "notification_removed") \o
           Calls(TaskRecipients(<<updated.userId>>, updated.assignedTo, actor), "task_updated")

UpdateTaskWith(actor, body, fail, out) ==
  LET found == /\ TaskId \in DOMAIN tasks
               /\ \/ tasks[TaskId].userId = actor
                  \/ MatchesEditorQuery(tasks[TaskId], actor)
      task == tasks[TaskId]
      tag == NormalizeGroupTag(body.groupTag)
      updated == [task EXCEPT
                    !.assignedTo = IF body.field = "assignedTo" THEN body.assignedTo ELSE @,
                    !.collaborators = IF body.field = "collaborators" THEN body.collaborators ELSE @,
                    !.groupTag = IF body.field = "groupTag" THEN tag ELSE @,
                    !.status = IF body.field = "status" THEN body.status ELSE @]
  IN  IF ~found
      THEN UNCHANGED <<groups, tasks>> /\ Respond("updateTask", actor, <<>>, 404, <<>>)
      ELSE IF /\ body.field = "groupTag"
              /\ tag # PersonalTag
              /\ tag # task.groupTag
              /\ ~GroupAccess(tag, actor)
      THEN UNCHANGED <<groups, tasks>> /\ Respond("updateTask", actor, <<>>, 403, <<>>)
      ELSE IF body.field = "pastDueDate"
      THEN UNCHANGED <<groups, tasks>> /\ Respond("updateTask", actor, <<>>, 400, <<>>)
      ELSE /\ tasks' = [tasks EXCEPT ![TaskId] = updated]
           /\ UNCHANGED groups
           /\ RespondWith("updateTask", actor, Seen(task, updated) \o <<fail>>, 200,
                          updateTaskCalls(task, updated, actor, fail), out)

UpdateTask(actor, body) == UpdateTaskWith(actor, body, NoFailure, AllOk)

RECURSIVE DeleteCalls(_)
\* deleteTask: notification_removed, then task_deleted, recipient by recipient
DeleteCalls(list) ==
  IF list = <<>> THEN <<>>
  ELSE <<Call(Head(list), "notification_removed"), Call(Head(list), "task_deleted")>>
         \o DeleteCalls(Tail(list))

DeleteTask(actor) ==
  LET task == tasks[TaskId]
      IsActor(c) == c.userId = actor
      byGroup == /\ task.groupTag # PersonalTag
                 /\ task.groupTag \in DOMAIN groups
                 /\ LET g == groups[task.groupTag]
                        i == FirstIndex(g.collaborators, IsActor)
                    IN  \/ g.owner = actor
                        \/ i # 0 /\ g.collaborators[i].role \in {"editor", "admin"}
      hasPermission == task.userId = actor \/ byGroup \/ IsEditorOf(task, actor)
  IN  IF TaskId \notin DOMAIN tasks
      THEN UNCHANGED <<groups, tasks>> /\ Respond("deleteTask", actor, <<>>, 404, <<>>)
      ELSE IF ~hasPermission
      THEN UNCHANGED <<groups, tasks>> /\ Respond("deleteTask", actor, <<>>, 403, <<>>)
      ELSE /\ tasks' = NoTasks
           /\ UNCHANGED groups
           /\ Respond("deleteTask", actor, Seen(task, task), 200,
                      DeleteCalls(TaskRecipients(<<task.userId>>, task.assignedTo, actor)))

UpdateTaskStatus(actor, status) ==
  LET task == tasks[TaskId]
      g == groups[task.groupTag]
      IsAccepted(c) == c.userId = actor /\ c.status = "accepted"
      i == FirstIndex(g.collaborators, IsAccepted)
      userRole == IF g.owner = actor THEN "owner"
                  ELSE IF i # 0 THEN g.collaborators[i].role ELSE "none"
      ownsOrAssigned == task.userId = actor \/ actor \in Range(task.assignedTo)
      updated == [task EXCEPT !.status = status]
      Done == /\ tasks' = [tasks EXCEPT ![TaskId] = updated]
              /\ UNCHANGED groups
              /\ Respond("updateTaskStatus", actor, Seen(task, updated), 200,
                         Calls(TaskRecipients(<<updated.userId>>, updated.assignedTo, actor),
                               "task_updated"))
      Refuse(http) == UNCHANGED <<groups, tasks>> /\ Respond("updateTaskStatus", actor, <<>>, http, <<>>)
  IN  IF TaskId \notin DOMAIN tasks THEN Refuse(404)
      ELSE IF task.groupTag # PersonalTag
      THEN IF ~GroupAccess(task.groupTag, actor) THEN Refuse(403)
           ELSE IF userRole = "viewer" THEN (IF ownsOrAssigned THEN Done ELSE Refuse(403))
           ELSE IF userRole \in {"editor", "admin", "owner"} THEN Done
           ELSE Refuse(403)
      ELSE IF task.userId = actor \/ IsEditorOf(task, actor) THEN Done
      ELSE Refuse(403)

(***************************************************************************)
(* Specification of the group handlers                                     *)
(***************************************************************************)
\* every stream of the model is open: the registry the handlers publish into
AllOpen == [u \in {Owner(r) : r \in Channels} |-> {r \in Channels : Owner(r) = u}]

InitStore ==
  /\ clientsMap = AllOpen
  /\ op = NoOp
  /\ pre = AllOpen
  /\ writes = <<>>
  /\ calls = <<>>
  /\ lastCall = NoCalls
  /\ streams = NoStreams
  /\ InitExtra
  /\ requests = NoRequests
  /\ users = NoUserDocs
  /\ groups = NoGroups
  /\ tasks = NoTasks

\* collaborators of a createGroup request body
InvitedInputs == {<<>>} \cup {<<[userId |-> u, role |-> "editor"]>> : u \in Users}

\* role of an inviteUser request body: the default of the handler
InviteRoles == {"editor"}

GroupNext ==
  \/ \E a \in Users, inv \in InvitedInputs : CreateGroup(a, inv)
  \/ \E a \in Users, u \in Users, r \in InviteRoles :
        /\ TeamTag \in DOMAIN groups => Len(groups[TeamTag].collaborators) < MaxMembers
        /\ InviteUser(a, u, r)
  \/ \E a \in Users : AcceptInvitation(a)
  \/ \E a \in Users : DeclineInvitation(a)
  \/ \E a \in Users : ExitGroup(a)
  \/ \E a \in Users, u \in Users : RemoveMember(a, u)
  \/ \E a \in Users, t \in ActivityTags : CreateActivity(a, t)

SpecGroup == InitStore /\ [][GroupNext]_vars

(***************************************************************************)
(* Specification of the task handlers                                      *)
(***************************************************************************)
\* the store once the last user has created the group @team
InitTask ==
  /\ clientsMap = AllOpen
  /\ op = NoOp
  /\ pre = AllOpen
  /\ writes = <<>>
  /\ calls = <<>>
  /\ lastCall = NoCalls
  /\ streams = NoStreams
  /\ InitExtra
  /\ requests = NoRequests
  /\ users = NoUserDocs
  /\ groups = [t \in {TeamTag} |->
                 [owner |-> AllUserIds[NumUsers],
                  collaborators |-> <<Member(AllUserIds[NumUsers], "admin", "accepted")>>]]
  /\ tasks = NoTasks

TaskNext ==
  \/ \E a \in Users, g \in RawTags, as \in AssignInputs, c \in TaskCollabInputs,
        due \in BOOLEAN : CreateTask(a, g, as, c, due)
  \/ \E a \in Users, b \in UpdateBodies : UpdateTask(a, b)
  \/ \E a \in Users : DeleteTask(a)
  \/ \E a \in Users, st \in Statuses : UpdateTaskStatus(a, st)

SpecTask == InitTask /\ [][TaskNext]_vars

(***************************************************************************)
(* activityEmitter.js: the payload built for each recipient                *)
(***************************************************************************)
\* null / undefined / empty: every falsy value of a profile or payload field
Null == "null"

\* a || b
Or(a, b) == IF a # Null THEN a ELSE b

RealName == "Ada Lovelace"

Email == "ada@mail.io"

CustomPicture == "custom.png"

ProviderPicture == "idp.png"

\* computeInitials on the names of the model: local part of an e-mail, split
\* on blanks, two letters of a single token or the first letters of the
\* first and last token, upper-cased
computeInitials(nameOrEmail) ==
  IF nameOrEmail = Null THEN Null
  ELSE IF nameOrEmail = RealName THEN "AL"
  ELSE IF nameOrEmail = Email THEN "AD"
  ELSE IF nameOrEmail = "Unknown" THEN "UN"
  ELSE Null

\* the user documents User.findOne can return for the actor
Profiles ==
  [name : {Null, RealName}, email : {Null, Email},
   customPicture : {Null, CustomPicture}, picture : {Null, ProviderPicture}]

\* what the store holds for the actor: a profile, or no document
NoProfile == [name |-> Null, email |-> Null, customPicture |-> Null, picture |-> Null]

StoredActors == {[found |-> TRUE, profile |-> p] : p \in Profiles}
                  \cup {[found |-> FALSE, profile |-> NoProfile]}

\* activity.userName as createActivity records it:
\* req.userName || user.name || "Unknown"
RecordedNames == {RealName, "Unknown"}

\* the two declarations of emitActivity in activityEmitter.js
Builds == {1, 2}

\* the payload common to all recipients; actor is the lookup result
\* (found = FALSE when there is no document or the lookup threw)
basePayload(build, activity, actor) ==
  IF actor.found
  THEN IF build = 1
       THEN [userPicture |-> actor.profile.customPicture,
             userInitials |-> computeInitials(Or(actor.profile.name, actor.profile.email)),
             userEmail |-> actor.profile.email,
             userName |-> IF actor.profile.customPicture # Null
                          THEN Or(actor.profile.name, actor.profile.email)
                          ELSE Null]
       ELSE [userPicture |-> Or(actor.profile.customPicture, actor.profile.picture),
             userInitials |-> computeInitials(Or(actor.profile.name, actor.profile.email)),
             userEmail |-> actor.profile.email,
             userName |-> Or(actor.profile.name, actor.profile.email)]
  ELSE [userPicture |-> Null,
        userInitials |-> computeInitials(activity.userName),
        userEmail |-> Null,
        userName |-> activity.userName]

\* the payload of recipient rid; group is the lookup result for the tag
perPayload(build, payload, actor, group, rid) ==
  IF build = 1 /\ actor.found /\ group.found /\ rid = group.owner
  THEN [payload EXCEPT !.userName = Or(actor.profile.name, actor.profile.email)]
  ELSE payload

\* Group.findOne({ tag }) as emitActivity uses it
FindGroup(tag) ==
  IF tag \in DOMAIN groups THEN [found |-> TRUE, owner |-> groups[tag].owner]
  ELSE [found |-> FALSE, owner |-> NoUser]

\* emitActivity(activity) with the store holding `stored` for the actor;
\* actorThrows: User.findOne rejects, groupThrows: Group.findOne rejects.
\* Its return value and its sendEventToUser calls, in order.
emitActivityCalls(build, activity, stored, actorThrows, groupThrows) ==
  LET grouped == activity.groupTag # "" /\ activity.groupTag # PersonalTag
      aborted == grouped /\ groupThrows
      actor == IF actorThrows THEN [found |-> FALSE, profile |-> NoProfile] ELSE stored
      group == IF grouped THEN FindGroup(activity.groupTag)
               ELSE [found |-> FALSE, owner |-> NoUser]
      payload == basePayload(build, activity, actor)
      rcpt == emitActivity(activity)
  IN  [ret |-> ~aborted,
       published |-> IF aborted THEN <<>>
                     ELSE [i \in 1..Len(rcpt) |->
                             [userId |-> rcpt[i], eventName |-> "activity",
                              payload |-> perPayload(build, payload, actor, group, rcpt[i])]]]

EmitActivity(build, activity, stored, actorThrows, groupThrows) ==
  LET e == emitActivityCalls(build, activity, stored, actorThrows, groupThrows)
      r == Publish(clientsMap, e.published, <<>>)
  IN  /\ clientsMap' = r.map
      /\ pre' = clientsMap
      /\ writes' = r.writes
      /\ calls' = e.published
      /\ op' = [NoOp EXCEPT !.name = "emitActivity", !.userId = activity.userId,
                            !.ret = e.ret,
                            !.arg = <<[build |-> build, activity |-> activity,
                                       stored |-> stored, actorThrows |-> actorThrows,
                                       groupThrows |-> groupThrows]>>]
      /\ UNCHANGED <<lastCall, groups, tasks>>
      /\ RestUnchanged

\* createActivity: Activity.create, then emitActivity inside try / catch,
\* then the 201 response
CreateActivityWith(build, activity, stored, actorThrows, groupThrows, out) ==
  LET e == emitActivityCalls(build, activity, stored, actorThrows, groupThrows)
  IN  /\ UNCHANGED <<groups, tasks>>
      /\ RespondWith("createActivity", activity.userId,
                     <<[build |-> build, activity |-> activity, stored |-> stored,
                        actorThrows |-> actorThrows, groupThrows |-> groupThrows]>>,
                     201, e.published, out)

\* the calls of emitActivity studied: every build, actor, tag, recorded name,
\* stored profile and lookup outcome
EmitInputs ==
  [build : Builds,
   activity : [userId : Users, groupTag : ActivityTags, userName : RecordedNames],
   stored : StoredActors, actorThrows : BOOLEAN, groupThrows : BOOLEAN]

\* no stream is open; the store holds the group @team: the first user owns
\* it, the others are accepted collaborators; one call of emitActivity is
\* about to be made
InitEmit ==
  /\ clientsMap = EmptyMap
  /\ \E in \in EmitInputs :
        op = [NoOp EXCEPT !.name = "call", !.userId = in.activity.userId, !.arg = <<in>>]
  /\ pre = EmptyMap
  /\ writes = <<>>
  /\ calls = <<>>
  /\ lastCall = NoCalls
  /\ streams = NoStreams
  /\ InitExtra
  /\ requests = NoRequests
  /\ users = NoUserDocs
  /\ groups = [t \in {TeamTag} |->
                 [owner |-> AllUserIds[1],
                  collaborators |-> [i \in 1..NumUsers |->
                     Member(AllUserIds[i], IF i = 1 THEN "admin" ELSE "editor", "accepted")]]]
  /\ tasks = NoTasks

EmitNext ==
  /\ op.name = "call"
  /\ EmitActivity(op.arg[1].build, op.arg[1].activity, op.arg[1].stored,
                  op.arg[1].actorThrows, op.arg[1].groupThrows)

SpecEmit == InitEmit /\ [][EmitNext]_vars

(***************************************************************************)
(* Specification of the handlers under store and channel failures          *)
(***************************************************************************)
\* write outcomes of one request: every channel delivers, or one of them
\* throws
FailOuts ==
  {AllOk} \cup {[c \in Channels |-> IF c = r THEN "throwEvent" ELSE "ok"] : r \in Channels}

FailInputs == [groupThrows : BOOLEAN, storeFails : {{}} \cup {{u} : u \in SseUsers}]

\* updateTask requests of the task owner that replace assignedTo
UpdateRequests ==
  [actor : Users, old : AssignInputs, new : AssignInputs, fail : FailInputs, out : FailOuts]

\* createActivity requests
ActivityRequests ==
  [build : Builds,
   activity : [userId : Users, groupTag : {PersonalTag, TeamTag}, userName : {RealName}],
   stored : {[found |-> TRUE,
              profile |-> [name |-> RealName, email |-> Email,
                           customPicture |-> Null, picture |-> ProviderPicture]]},
   actorThrows : BOOLEAN, groupThrows : BOOLEAN, out : FailOuts]

\* every stream is open, the store holds the group @team and, for an
\* updateTask request, the personal task of the actor; the request is about
\* to be handled
InitFail ==
  /\ clientsMap = AllOpen
  /\ pre = AllOpen
  /\ writes = <<>>
  /\ calls = <<>>
  /\ lastCall = NoCalls
  /\ streams = NoStreams
  /\ InitExtra
  /\ requests = NoRequests
  /\ users = NoUserDocs
  /\ groups = [t \in {TeamTag} |->
                 [owner |-> AllUserIds[1],
                  collaborators |-> [i \in 1..NumUsers |->
                     Member(AllUserIds[i], IF i = 1 THEN "admin" ELSE "editor", "accepted")]]]
  /\ \/ \E rq \in UpdateRequests :
          /\ op = [NoOp EXCEPT !.name = "callUpdateTask", !.userId = rq.actor, !.arg = <<rq>>]
          /\ tasks = [t \in {TaskId} |->
                        [userId |-> rq.actor, assignedTo |-> rq.old, groupTag |-> PersonalTag,
                         collaborators |-> <<>>, status |-> "pending"]]
     \/ \E rq \in ActivityRequests :
          /\ op = [NoOp EXCEPT !.name = "callCreateActivity", !.userId = rq.activity.userId,
                               !.arg = <<rq>>]
          /\ tasks = NoTasks

FailUpdateTask ==
  /\ op.name = "callUpdateTask"
  /\ UpdateTaskWith(op.arg[1].actor,
                    [field |-> "assignedTo", assignedTo |-> op.arg[1].new,
                     collaborators |-> <<>>, groupTag |-> "", status |-> ""],
                    op.arg[1].fail, op.arg[1].out)

FailCreateActivity ==
  /\ op.name = "callCreateActivity"
  /\ CreateActivityWith(op.arg[1].build, op.arg[1].activity, op.arg[1].stored,
                        op.arg[1].actorThrows, op.arg[1].groupThrows, op.arg[1].out)

FailNext == FailUpdateTask \/ FailCreateActivity

SpecFail == InitFail /\ [][FailNext]_vars

(***************************************************************************)
(* createActivity and updateTask, await by await                           *)
(***************************************************************************)
\* number of requests in progress at the same time
NumRequests == 2

AllReqIds == <<"q1", "q2", "q3">>

ReqIds == {AllReqIds[i] : i \in 1..NumRequests}

\* what the history variables keep while a handler is suspended
HistoryUnchanged == UNCHANGED <<clientsMap, op, pre, writes, calls, lastCall>>

InProgress(q) == q \in DOMAIN requests

AtStep(q, pc) == InProgress(q) /\ requests[q].pc = pc

\* createActivity up to its first await inside emitActivity: the activity is
\* created, emitActivity is entered and awaits Group.findOne for a group
\* activity, User.findOne otherwise
ArriveCreateActivity(q, actor, groupTag) ==
  /\ ~InProgress(q)
  /\ requests' = [k \in DOMAIN requests \cup {q} |->
                    IF k = q
                    THEN [handler |-> "createActivity", actor |-> actor, groupTag |-> groupTag,
                          pc |-> IF groupTag # "" /\ groupTag # PersonalTag
                                 THEN "Group.findOne" ELSE "User.findOne",
                          committed |-> TRUE, http |-> 0]
                    ELSE requests[k]]
  /\ HistoryUnchanged
  /\ UNCHANGED <<groups, tasks, streams, users>>
  /\ ExtraUnchanged

\* updateTask of the task owner up to the first await of its notification
\* pass: the update is written; with added assignees the pass awaits
\* Group.findOne, with removed ones only a Notification write, and with
\* neither it publishes task_updated at once
ArriveUpdateTask(q, actor, assignedTo) ==
  /\ ~InProgress(q)
  /\ TaskId \in DOMAIN tasks
  /\ tasks[TaskId].userId = actor
  /\ LET old == tasks[TaskId].assignedTo
         added == AddedAssignees(old, assignedTo)
         removed == RemovedAssignees(old, assignedTo)
     IN  /\ IF added = <<>> /\ removed = <<>>
            THEN Publishing("updateTask", actor, <<q>>, 0,
                            updateTaskCalls([assignedTo |-> old],
                                            [userId |-> actor, assignedTo |-> assignedTo],
                                            actor, NoFailure), AllOk)
            ELSE HistoryUnchanged
         /\ requests' = [k \in DOMAIN requests \cup {q} |->
                        IF k = q
                        THEN [handler |-> "updateTask", actor |-> actor, groupTag |-> PersonalTag,
                              old |-> old, new |-> assignedTo,
                              pc |-> IF added # <<>> THEN "Group.findOne"
                                     ELSE IF removed # <<>> THEN "Notification.write"
                                     ELSE "emitted",
                              committed |-> TRUE, http |-> 0]
                        ELSE requests[k]]
  /\ tasks' = [tasks EXCEPT ![TaskId].assignedTo = assignedTo]
  /\ UNCHANGED <<groups, streams, users>>
  /\ ExtraUnchanged

\* the store answers the pending Group.findOne
ReplyGroupLookup(q) ==
  /\ AtStep(q, "Group.findOne")
  /\ requests' = [requests EXCEPT ![q].pc = IF requests[q].handler = "createActivity"
                                            THEN "User.findOne" ELSE "Notification.write"]
  /\ HistoryUnchanged
  /\ UNCHANGED <<groups, tasks, streams, users>>
  /\ ExtraUnchanged

\* the store answers the last pending call of the emission (User.findOne in
\* emitActivity, the Notification writes in updateTask); the sendEventToUser
\* calls that follow run without suspension
ReplyLastLookup(q) ==
  /\ \/ AtStep(q, "User.findOne")
     \/ AtStep(q, "Notification.write")
  /\ requests' = [requests EXCEPT ![q].pc = "emitted"]
  /\ LET rq == requests[q]
     IN  IF rq.handler = "createActivity"
         THEN Publishing("createActivity", rq.actor, <<q>>, 0,
                         Calls(emitActivity([userId |-> rq.actor, groupTag |-> rq.groupTag]),
                               "activity"), AllOk)
         ELSE Publishing("updateTask", rq.actor, <<q>>, 0,
                         updateTaskCalls([assignedTo |-> rq.old],
                                         [userId |-> rq.actor, assignedTo |-> rq.new],
                                         rq.actor, NoFailure), AllOk)
  /\ UNCHANGED <<groups, tasks, streams, users>>
  /\ ExtraUnchanged

\* res.status(...).json(...): reached only after the emission has returned
SendResponse(q) ==
  /\ AtStep(q, "emitted")
  /\ requests' = [requests EXCEPT ![q].pc = "responded",
                                  ![q].http = IF requests[q].handler = "createActivity"
                                              THEN 201 ELSE 200]
  /\ HistoryUnchanged
  /\ UNCHANGED <<groups, tasks, streams, users>>
  /\ ExtraUnchanged

\* assignedTo arrays of the step-wise updateTask requests
AsyncAssignInputs == {<<>>, <<AllUserIds[1]>>, <<AllUserIds[2]>>}

\* every stream is open; the store holds the group @team of the first user
\* and a personal task of the last one
InitAsync ==
  /\ clientsMap = AllOpen
  /\ op = NoOp
  /\ pre = AllOpen
  /\ writes = <<>>
  /\ calls = <<>>
  /\ lastCall = NoCalls
  /\ streams = NoStreams
  /\ InitExtra
  /\ requests = NoRequests
  /\ users = NoUserDocs
  /\ groups = [t \in {TeamTag} |->
                 [owner |-> AllUserIds[1],
                  collaborators |-> [i \in 1..NumUsers |->
                     Member(AllUserIds[i], IF i = 1 THEN "admin" ELSE "editor", "accepted")]]]
  /\ tasks = [t \in {TaskId} |->
                [userId |-> AllUserIds[NumUsers], assignedTo |-> <<>>,
                 groupTag |-> PersonalTag, collaborators |-> <<>>, status |-> "pending"]]

AsyncNext ==
  \/ \E q \in ReqIds, a \in Users, t \in {PersonalTag, TeamTag} : ArriveCreateActivity(q, a, t)
  \/ \E q \in ReqIds, a \in Users, as \in AsyncAssignInputs : ArriveUpdateTask(q, a, as)
  \/ \E q \in ReqIds : ReplyGroupLookup(q)
  \/ \E q \in ReqIds : ReplyLastLookup(q)
  \/ \E q \in ReqIds : SendResponse(q)

SpecAsync == InitAsync /\ [][AsyncNext]_vars

(***************************************************************************)
(* GET /stream: connection, heartbeat, disconnect                          *)
(***************************************************************************)
\* consecutive failed heartbeat writes that are counted
MaxPingFails == 3

\* 'close' events delivered for one request
MaxCloses == 2

\* response objects that open a stream
NumStreams == 3

StreamChannels == {AllChannels[i] : i \in 1..NumStreams}

\* outcomes of a write on a stream: it goes through or it throws
StreamOutcomes == {"ok", "throwEvent"}

\* variant: the connected frame does not carry the caller's identity
connectedFrameAnonymous(res, userId, outcome) ==
  IF outcome = "ok"
  THEN <<[res |-> res, line |-> "event", eventName |-> "connected", threw |-> FALSE,
          userId |-> NoUser],
         [res |-> res, line |-> "data", eventName |-> "connected", threw |-> FALSE,
          userId |-> NoUser]>>
  ELSE <<[res |-> res, line |-> "event", eventName |-> "connected", threw |-> TRUE,
          userId |-> NoUser]>>

\* res.write(`event: connected\n`); res.write(`data: {connected, userId}\n\n`)
connectedFrame(res, userId, outcome) ==
  IF outcome = "ok"
  THEN <<[res |-> res, line |-> "event", eventName |-> "connected", threw |-> FALSE,
          userId |-> userId],
         [res |-> res, line |-> "data", eventName |-> "connected", threw |-> FALSE,
          userId |-> userId]>>
  ELSE <<[res |-> res, line |-> "event", eventName |-> "connected", threw |-> TRUE,
          userId |-> userId]>>

\* variant: the channel is registered for every user
openStreamForAll(m, userId, res, outcome) ==
  IF outcome = "ok"
  THEN [map |-> [u \in DOMAIN m \cup SseUsers |-> ChannelsOf(m, u) \cup {res}],
        writes |-> connectedFrame(res, userId, outcome),
        stream |-> [userId |-> userId, timer |-> TRUE, listening |-> TRUE, closes |-> 0,
                    pingFails |-> 0, first |-> "connected"]]
  ELSE [map |-> m,
        writes |-> connectedFrame(res, userId, outcome),
        stream |-> [userId |-> userId, timer |-> FALSE, listening |-> FALSE, closes |-> 0,
                    pingFails |-> 0, first |-> "none"]]

\* the handler of GET /stream: the connected frame, addClient, the heartbeat
\* timer, the 'close' listener; a write that throws leaves the handler before
\* addClient
openStream(m, userId, res, outcome) ==
  IF outcome = "ok"
  THEN [map |-> addClient(m, userId, res),
        writes |-> connectedFrame(res, userId, outcome),
        stream |-> [userId |-> userId, timer |-> TRUE, listening |-> TRUE, closes |-> 0,
                    pingFails |-> 0, first |-> "connected"]]
  ELSE [map |-> m,
        writes |-> connectedFrame(res, userId, outcome),
        stream |-> [userId |-> userId, timer |-> FALSE, listening |-> FALSE, closes |-> 0,
                    pingFails |-> 0, first |-> "none"]]

\* the heartbeat callback: res.write(': ping\n\n') inside try / catch
heartbeat(stream, outcome) ==
  [stream EXCEPT !.pingFails = IF outcome = "ok" THEN 0
                               ELSE IF @ < MaxPingFails THEN @ + 1 ELSE @,
                 !.first = IF @ = "none" /\ outcome = "ok" THEN "ping" ELSE @]

\* variant: the 'close' listener leaves the timer running
closeStreamKeepsTimer(m, stream, res) ==
  LET r == removeClient(m, stream.userId, res)
  IN  [map |-> r.map, threw |-> FALSE,
       stream |-> [stream EXCEPT !.closes = @ + 1, !.pingFails = 0]]

\* the 'close' listener: clearInterval, removeClient, res.end
closeStream(m, stream, res) ==
  LET r == removeClient(m, stream.userId, res)
  IN  [map |-> r.map, threw |-> FALSE,
       stream |-> [stream EXCEPT !.timer = FALSE, !.closes = @ + 1, !.pingFails = 0]]

Connected(res) == res \in DOMAIN streams

OpenStream(res, outcome) ==
  /\ ~Connected(res)
  /\ LET r == openStream(clientsMap, Owner(res), res, outcome)
     IN  /\ clientsMap' = r.map
         /\ writes' = r.writes
         /\ streams' = [k \in DOMAIN streams \cup {res} |->
                          IF k = res THEN r.stream ELSE streams[k]]
  /\ pre' = clientsMap
  /\ calls' = <<>>
  /\ op' = [NoOp EXCEPT !.name = "openStream", !.userId = Owner(res), !.res = res,
                        !.threw = outcome # "ok"]
  /\ UNCHANGED <<lastCall, groups, tasks, requests, users>>
  /\ ExtraUnchanged

Heartbeat(res, outcome) ==
  /\ Connected(res)
  /\ streams[res].timer
  /\ streams' = [streams EXCEPT ![res] = heartbeat(@, outcome)]
  /\ writes' = <<[res |-> res, line |-> "ping", eventName |-> "ping",
                  threw |-> outcome # "ok"]>>
  /\ pre' = clientsMap
  /\ calls' = <<>>
  /\ op' = [NoOp EXCEPT !.name = "heartbeat", !.userId = streams[res].userId, !.res = res]
  /\ UNCHANGED <<clientsMap, lastCall, groups, tasks, requests, users>>
  /\ ExtraUnchanged

\* the 'close' event of the request; its op remembers whether it follows the
\* opening of the same stream directly, and the registry before that opening
CloseStream(res) ==
  /\ Connected(res)
  /\ streams[res].listening
  /\ streams[res].closes < MaxCloses
  /\ LET r == closeStream(clientsMap, streams[res], res)
         direct == op.name = "openStream" /\ op.res = res
     IN  /\ clientsMap' = r.map
         /\ streams' = [streams EXCEPT ![res] = r.stream]
         /\ op' = [NoOp EXCEPT !.name = "closeStream", !.userId = streams[res].userId,
                               !.res = res, !.threw = r.threw,
                               !.arg = <<[direct |-> direct,
                                          before |-> IF direct THEN pre ELSE EmptyMap,
                                          closes |-> streams[res].closes + 1]>>]
  /\ pre' = clientsMap
  /\ writes' = <<>>
  /\ calls' = <<>>
  /\ UNCHANGED <<lastCall, groups, tasks, requests, users>>
  /\ ExtraUnchanged

\* a handler publishes to a user while streams are open
StreamSend(userId, eventName, out) ==
  /\ Sending(userId, eventName, out)
  /\ streams' = [r \in DOMAIN streams |->
                   IF r \in ChannelsOf(clientsMap, userId) /\ out[r] = "ok"
                      /\ streams[r].first = "none"
                   THEN [streams[r] EXCEPT !.first = eventName]
                   ELSE streams[r]]
  /\ UNCHANGED <<lastCall, groups, tasks, requests, users>>
  /\ ExtraUnchanged

StreamNext ==
  \/ \E r \in StreamChannels, o \in StreamOutcomes : OpenStream(r, o)
  \/ \E r \in StreamChannels, o \in StreamOutcomes : Heartbeat(r, o)
  \/ \E r \in StreamChannels : CloseStream(r)
  \/ \E u \in SseUsers, e \in SseEvents :
        \E out \in [ChannelsOf(clientsMap, u) -> StreamOutcomes] : StreamSend(u, e, out)

SpecStream == Init /\ [][StreamNext]_vars

(***************************************************************************)
(* getOrCreateUser / getOrCreateUserFromAuth, await by await               *)
(***************************************************************************)
Provisioners == {"getOrCreateUser", "getOrCreateUserFromAuth"}

\* error code of a write the unique index on auth0Id refuses
DuplicateKey == 11000

\* User documents with this auth0Id
DocsOf(docs, auth0Id) == {i \in 1..Len(docs) : docs[i].auth0Id = auth0Id}

\* User.findOne({ auth0Id })
FindUser(docs, auth0Id) == DocsOf(docs, auth0Id) # {}

\* variant: every error of the upsert is thrown on
afterUpsertErrorRethrows(code, found) == "throw"

\* the catch around the upsert: a duplicate-key error is answered by reading
\* the document the other request created, any other error is thrown on
afterUpsertError(code, found) ==
  IF code = DuplicateKey
  THEN IF found THEN "user.save" ELSE "throw"
  ELSE "throw"

Provisioning(q) == q \in DOMAIN requests /\ requests[q].result = "none"

ProvisionUnchanged ==
  HistoryUnchanged /\ UNCHANGED <<groups, tasks, streams>> /\ ExtraUnchanged

SetRequest(q, r) ==
  requests' = [k \in DOMAIN requests \cup {q} |-> IF k = q THEN r ELSE requests[k]]

\* the request reaches await User.findOneAndUpdate(..., { upsert: true })
ArriveProvision(q, handler, auth0Id) ==
  /\ q \notin DOMAIN requests
  /\ SetRequest(q, [handler |-> handler, auth0Id |-> auth0Id, pc |-> "findOneAndUpdate",
                    result |-> "none", user |-> NoUser, reconciled |-> FALSE])
  /\ UNCHANGED users
  /\ ProvisionUnchanged

\* the store evaluates the query of the upsert: a matching document is updated
\* and returned, otherwise the store goes on to insert one
UpsertQuery(q) ==
  /\ Provisioning(q)
  /\ requests[q].pc = "findOneAndUpdate"
  /\ IF FindUser(users, requests[q].auth0Id)
     THEN SetRequest(q, [requests[q] EXCEPT !.pc = "returned", !.result = "user",
                                            !.user = requests[q].auth0Id])
     ELSE SetRequest(q, [requests[q] EXCEPT !.pc = "insert"])
  /\ UNCHANGED users
  /\ ProvisionUnchanged

\* the insert of the upsert: the unique index on auth0Id refuses a second
\* document, and the handler's catch takes over
UpsertInsert(q) ==
  /\ Provisioning(q)
  /\ requests[q].pc = "insert"
  /\ IF FindUser(users, requests[q].auth0Id)
     THEN LET next == afterUpsertError(DuplicateKey, FindUser(users, requests[q].auth0Id))
          IN  /\ SetRequest(q, [requests[q] EXCEPT
                     !.pc = next,
                     !.result = IF next = "throw" THEN "error" ELSE "none",
                     !.reconciled = next # "throw"])
              /\ UNCHANGED users
     ELSE /\ users' = Append(users, [auth0Id |-> requests[q].auth0Id, createdBy |-> q])
          /\ SetRequest(q, [requests[q] EXCEPT !.pc = "returned", !.result = "user",
                                               !.user = requests[q].auth0Id])
  /\ ProvisionUnchanged

\* after the duplicate-key error: the document read by findOne is saved and
\* returned
SaveFoundUser(q) ==
  /\ Provisioning(q)
  /\ requests[q].pc = "user.save"
  /\ SetRequest(q, [requests[q] EXCEPT !.pc = "returned", !.result = "user",
                                       !.user = requests[q].auth0Id])
  /\ UNCHANGED users
  /\ ProvisionUnchanged

InitProvision ==
  /\ clientsMap = EmptyMap
  /\ op = NoOp
  /\ pre = EmptyMap
  /\ writes = <<>>
  /\ calls = <<>>
  /\ lastCall = NoCalls
  /\ streams = NoStreams
  /\ InitExtra
  /\ requests = NoRequests
  /\ users = NoUserDocs
  /\ groups = NoGroups
  /\ tasks = NoTasks

ProvisionNext ==
  \/ \E q \in ReqIds, h \in Provisioners, u \in Users : ArriveProvision(q, h, u)
  \/ \E q \in ReqIds : UpsertQuery(q)
  \/ \E q \in ReqIds : UpsertInsert(q)
  \/ \E q \in ReqIds : SaveFoundUser(q)

SpecProvision == InitProvision /\ [][ProvisionNext]_vars

(***************************************************************************)
(* Specification of delivery over time: what each channel has been written *)
(***************************************************************************)
\* the events published in one behaviour, told apart by their payload; each
\* is published once
PublishedEvents == {"task_updated#1", "task_updated#2"}

\* how often the res.write calls of one publish completed a frame of
\* eventName on res
CompleteFrames(ws, res, eventName) ==
  Cardinality({i \in DOMAIN ws : /\ ws[i].res = res
                                 /\ ws[i].eventName = eventName
                                 /\ ws[i].line = "data"
                                 /\ ~ws[i].threw})

\* events of userId published while userId had no channel
Missed(log, userId) == {e \in log : e.userId = userId /\ e.open = {}}

\* variant: the events the user missed are written to the new channel
framesAfterAddReplays(written, log, userId, res) ==
  IF userId = NoUser THEN written
  ELSE [k \in DOMAIN written |->
          IF k[1] = res /\ \E e \in Missed(log, userId) : e.eventName = k[2]
          THEN written[k] + 1 ELSE written[k]]

\* addClient writes nothing: the frames written so far stay as they are
framesAfterAdd(written, log, userId, res) == written

ReplayAdd(userId, res) ==
  /\ clientsMap' = addClient(clientsMap, userId, res)
  /\ pre' = clientsMap
  /\ op' = [NoOp EXCEPT !.name = "addClient", !.userId = userId, !.res = res]
  /\ writes' = <<>>
  /\ calls' = <<>>
  /\ frames' = framesAfterAdd(frames, emitted, userId, res)
  /\ UNCHANGED <<emitted, lastCall, groups, tasks, streams, requests, users>>
  /\ TrackerUnchanged /\ UNCHANGED notifications

ReplayRemove(userId, res) ==
  /\ RemoveClient(userId, res)
  /\ UNCHANGED lastCall

ReplaySend(userId, eventName, out) ==
  /\ \A e \in emitted : e.eventName # eventName
  /\ Sending(userId, eventName, out)
  /\ emitted' = emitted \cup {[eventName |-> eventName, userId |-> userId,
                                open |-> ChannelsOf(clientsMap, userId)]}
  /\ frames' = [k \in DOMAIN frames |->
                  frames[k] + CompleteFrames(
                    sendEventToUser(clientsMap, userId, eventName, out).writes, k[1], k[2])]
  /\ UNCHANGED <<lastCall, groups, tasks, streams, requests, users>>
  /\ TrackerUnchanged /\ UNCHANGED notifications

ReplayNext ==
  \/ \E r \in StreamChannels : ReplayAdd(Owner(r), r)
  \/ \E r \in StreamChannels : ReplayRemove(Owner(r), r)
  \/ \E u \in SseUsers, e \in PublishedEvents :
        \E out \in [ChannelsOf(clientsMap, u) -> StreamOutcomes] : ReplaySend(u, e, out)

InitReplay ==
  /\ clientsMap = EmptyMap
  /\ op = NoOp
  /\ pre = EmptyMap
  /\ writes = <<>>
  /\ calls = <<>>
  /\ lastCall = NoCalls
  /\ streams = NoStreams
  /\ requests = NoRequests
  /\ users = NoUserDocs
  /\ groups = NoGroups
  /\ tasks = NoTasks
  /\ emitted = {}
  /\ frames = [k \in StreamChannels \X PublishedEvents |-> 0]
  /\ sessions = NoDocs
  /\ plans = NoPlans
  /\ notifications = NoDocs
  /\ summaries = NoDocs

SpecReplay == InitReplay /\ [][ReplayNext]_vars

(***************************************************************************)
(* Time tracker: startSession / startFromPlan, await by await              *)
(***************************************************************************)
Starters == {"startSession", "startFromPlan"}

PlanId == "plan1"

\* endTime: null, a running session
NullTime == -1

\* new Date() at the time of the call
Now == 1

\* the running sessions (endTime: null) of userId
Running(docs, userId) ==
  {i \in 1..Len(docs) : docs[i].userId = userId /\ docs[i].endTime = NullTime}

\* TimeSession.updateMany({ userId, endTime: null }, { $set: { endTime: new Date() } })
stopRunning(docs, userId) ==
  [i \in 1..Len(docs) |->
     IF docs[i].userId = userId /\ docs[i].endTime = NullTime
     THEN [docs[i] EXCEPT !.endTime = Now]
     ELSE docs[i]]

\* TimeSession.create({ userId, ..., endTime: null, source: "timer" })
createRunning(docs, userId) ==
  Append(docs, [userId |-> userId, startTime |-> Now, endTime |-> NullTime,
                source |-> "timer"])

SessionUnchanged ==
  /\ HistoryUnchanged
  /\ DeliveryUnchanged
  /\ UNCHANGED <<groups, tasks, streams, users, notifications, summaries>>

\* the request arrives: startFromPlan answers 404 unless the caller owns the
\* plan, then both handlers reach the updateMany
ArriveStart(q, handler, userId) ==
  /\ q \notin DOMAIN requests
  /\ LET found == PlanId \in DOMAIN plans /\ plans[PlanId].userId = userId
         refused == handler = "startFromPlan" /\ ~found
     IN  SetRequest(q, [handler |-> handler, userId |-> userId,
                        pc |-> IF refused THEN "responded" ELSE "updateMany",
                        http |-> IF refused THEN 404 ELSE 0])
  /\ UNCHANGED <<sessions, plans>>
  /\ SessionUnchanged

\* await TimeSession.updateMany(...) returns
StopRunningSessions(q) ==
  /\ q \in DOMAIN requests
  /\ requests[q].pc = "updateMany"
  /\ sessions' = stopRunning(sessions, requests[q].userId)
  /\ SetRequest(q, [requests[q] EXCEPT !.pc = "create"])
  /\ UNCHANGED plans
  /\ SessionUnchanged

\* await TimeSession.create(...) returns; startSession answers 201,
\* startFromPlan goes on to plan.save()
CreateRunningSession(q) ==
  /\ q \in DOMAIN requests
  /\ requests[q].pc = "create"
  /\ sessions' = createRunning(sessions, requests[q].userId)
  /\ IF requests[q].handler = "startSession"
     THEN SetRequest(q, [requests[q] EXCEPT !.pc = "responded", !.http = 201])
     ELSE SetRequest(q, [requests[q] EXCEPT !.pc = "plan.save"])
  /\ UNCHANGED plans
  /\ SessionUnchanged

\* await plan.save() returns, startFromPlan answers 201
SavePlan(q) ==
  /\ q \in DOMAIN requests
  /\ requests[q].pc = "plan.save"
  /\ plans' = [plans EXCEPT ![PlanId].status = "in_progress"]
  /\ SetRequest(q, [requests[q] EXCEPT !.pc = "responded", !.http = 201])
  /\ UNCHANGED sessions
  /\ SessionUnchanged

\* one scheduled plan of the first user, no session
InitSession ==
  /\ clientsMap = EmptyMap
  /\ op = NoOp
  /\ pre = EmptyMap
  /\ writes = <<>>
  /\ calls = <<>>
  /\ lastCall = NoCalls
  /\ streams = NoStreams
  /\ requests = NoRequests
  /\ users = NoUserDocs
  /\ groups = NoGroups
  /\ tasks = NoTasks
  /\ emitted = NoFrames
  /\ frames = NoFrames
  /\ sessions = NoDocs
  /\ plans = [p \in {PlanId} |->
                [userId |-> AllUserIds[1], startTime |-> 1, endTime |-> 2,
                 status |-> "scheduled"]]
  /\ notifications = NoDocs
  /\ summaries = NoDocs

SessionNext ==
  \/ \E q \in ReqIds, h \in Starters, u \in SseUsers : ArriveStart(q, h, u)
  \/ \E q \in ReqIds : StopRunningSessions(q)
  \/ \E q \in ReqIds : CreateRunningSession(q)
  \/ \E q \in ReqIds : SavePlan(q)

SpecSession == InitSession /\ [][SessionNext]_vars

(***************************************************************************)
(* getOrCreateUser / getOrCreateUserFromAuth on a user that exists         *)
(***************************************************************************)
\* the stored User documents studied: deactivated or not, with or without
\* the fields the handlers fill in
StoredUsers ==
  [auth0Id : {AllUserIds[1]}, isActive : BOOLEAN, isOnline : {FALSE},
   email : {Null, Email}, picture : {Null, ProviderPicture},
   customPicture : {Null, CustomPicture}]

\* what the token of the request carries
TokenClaims == [email : {Null, Email}, picture : {Null, ProviderPicture}]

\* the try block after the upsert returned the existing document: the copy
\* in memory that is returned, and the document in the store afterwards
afterUpsert(handler, doc, token) ==
  LET found == [doc EXCEPT !.isOnline = TRUE]
      wasDeactivated == ~found.isActive
      setEmail == found.email = Null /\ token.email # Null
      setPicture == found.picture = Null /\ found.customPicture = Null
                    /\ token.picture # Null
      user == [found EXCEPT !.isActive = TRUE,
                            !.email = IF setEmail THEN token.email ELSE @,
                            !.picture = IF setPicture THEN token.picture ELSE @]
      updated == setEmail \/ setPicture
      saves == IF handler = "getOrCreateUser"
               THEN updated \/ wasDeactivated
               ELSE updated \/ ~user.isActive
  IN  [returned |-> user, stored |-> IF saves THEN user ELSE found]

\* the catch block after a duplicate-key error: findOne, then save
afterDuplicateKey(doc) ==
  LET user == [doc EXCEPT !.isActive = TRUE, !.isOnline = TRUE]
  IN  [returned |-> user, stored |-> user]

ProvisionPaths == {"upsert", "duplicateKey"}

ReactivateInputs ==
  [handler : Provisioners, doc : StoredUsers, token : TokenClaims, path : ProvisionPaths]

\* one authenticated request of a user whose document is stored
ProvisionExisting(handler, doc, token, path) ==
  LET r == IF path = "upsert" THEN afterUpsert(handler, doc, token)
           ELSE afterDuplicateKey(doc)
  IN  /\ users' = <<r.stored>>
      /\ op' = [NoOp EXCEPT !.name = handler, !.userId = doc.auth0Id, !.http = 200,
                            !.arg = <<[handler |-> handler, doc |-> doc, token |-> token,
                                       path |-> path, returned |-> r.returned]>>]
      /\ UNCHANGED <<clientsMap, pre, writes, calls, lastCall, groups, tasks,
                     streams, requests>>
      /\ ExtraUnchanged

InitReactivate ==
  /\ clientsMap = EmptyMap
  /\ pre = EmptyMap
  /\ writes = <<>>
  /\ calls = <<>>
  /\ lastCall = NoCalls
  /\ streams = NoStreams
  /\ InitExtra
  /\ requests = NoRequests
  /\ groups = NoGroups
  /\ tasks = NoTasks
  /\ \E in \in ReactivateInputs :
       /\ users = <<in.doc>>
       /\ op = [NoOp EXCEPT !.name = "call", !.userId = in.doc.auth0Id, !.arg = <<in>>]

ReactivateNext ==
  /\ op.name = "call"
  /\ ProvisionExisting(op.arg[1].handler, op.arg[1].doc, op.arg[1].token, op.arg[1].path)

SpecReactivate == InitReactivate /\ [][ReactivateNext]_vars

(***************************************************************************)
(* Time tracker: creating and patching plans and sessions                  *)
(***************************************************************************)
\* instants; 0 is what new Date(null) gives
MaxTime == 2

Times == 1..MaxTime

Epoch == 0

\* a key that is not in req.body
Absent == -2

\* req.body of createPlan / createManual: startTime and endTime, possibly missing
CreateBodies == [startTime : Times \cup {Absent}, endTime : Times \cup {Absent}]

\* req.body of patchPlan / patchSession
PatchBodies == [startTime : Times \cup {Absent}, endTime : Times \cup {Absent, NullTime}]

SessionId == 1

\* the $set of patchPlan: new Date(req.body.endTime), null included
patchPlanUpdate(doc, body) ==
  [doc EXCEPT !.startTime = IF body.startTime = Absent THEN @ ELSE body.startTime,
              !.endTime = IF body.endTime = Absent THEN @
                          ELSE IF body.endTime = NullTime THEN Epoch ELSE body.endTime]

\* the $set of patchSession: endTime null stays null
patchSessionUpdate(doc, body) ==
  [doc EXCEPT !.startTime = IF body.startTime = Absent THEN @ ELSE body.startTime,
              !.endTime = IF body.endTime = Absent THEN @ ELSE body.endTime]

PatchUnchanged ==
  /\ DeliveryUnchanged
  /\ UNCHANGED <<clientsMap, pre, writes, calls, lastCall, groups, tasks, streams,
                 requests, users, notifications, summaries>>

\* the answer of a tracker handler; arg keeps the collections as they were
Answer(name, userId, http) ==
  op' = [NoOp EXCEPT !.name = name, !.userId = userId, !.http = http,
                     !.arg = <<[plans |-> plans, sessions |-> sessions]>>]

CreatePlan(userId, body) ==
  /\ PlanId \notin DOMAIN plans
  /\ IF body.startTime = Absent \/ body.endTime = Absent
     THEN UNCHANGED plans /\ Answer("createPlan", userId, 422)
     ELSE IF body.endTime <= body.startTime
     THEN UNCHANGED plans /\ Answer("createPlan", userId, 422)
     ELSE /\ plans' = [p \in {PlanId} |->
                         [userId |-> userId, startTime |-> body.startTime,
                          endTime |-> body.endTime, status |-> "scheduled"]]
          /\ Answer("createPlan", userId, 201)
  /\ UNCHANGED sessions
  /\ PatchUnchanged

\* findOneAndUpdate first, the comparison of the returned document after it
PatchPlan(userId, body) ==
  /\ IF PlanId \notin DOMAIN plans
     THEN UNCHANGED plans /\ Answer("patchPlan", userId, 404)
     ELSE IF plans[PlanId].userId # userId
     THEN UNCHANGED plans /\ Answer("patchPlan", userId, 404)
     ELSE LET doc == patchPlanUpdate(plans[PlanId], body)
          IN  /\ plans' = [plans EXCEPT ![PlanId] = doc]
              /\ Answer("patchPlan", userId,
                        IF doc.endTime <= doc.startTime THEN 422 ELSE 200)
  /\ UNCHANGED sessions
  /\ PatchUnchanged

CreateManual(userId, body) ==
  /\ sessions = NoDocs
  /\ IF body.startTime = Absent \/ body.endTime = Absent
     THEN UNCHANGED sessions /\ Answer("createManual", userId, 422)
     ELSE IF body.endTime <= body.startTime
     THEN UNCHANGED sessions /\ Answer("createManual", userId, 422)
     ELSE /\ sessions' = <<[userId |-> userId, startTime |-> body.startTime,
                            endTime |-> body.endTime, source |-> "manual"]>>
          /\ Answer("createManual", userId, 201)
  /\ UNCHANGED plans
  /\ PatchUnchanged

PatchSession(userId, body) ==
  /\ IF sessions = NoDocs
     THEN UNCHANGED sessions /\ Answer("patchSession", userId, 404)
     ELSE IF sessions[SessionId].userId # userId
     THEN UNCHANGED sessions /\ Answer("patchSession", userId, 404)
     ELSE LET doc == patchSessionUpdate(sessions[SessionId], body)
          IN  /\ sessions' = [sessions EXCEPT ![SessionId] = doc]
              /\ Answer("patchSession", userId,
                        IF doc.endTime # NullTime /\ doc.endTime <= doc.startTime
                        THEN 422 ELSE 200)
  /\ UNCHANGED plans
  /\ PatchUnchanged

PatchNext ==
  \/ \E u \in SseUsers, b \in CreateBodies : CreatePlan(u, b)
  \/ \E u \in SseUsers, b \in PatchBodies : PatchPlan(u, b)
  \/ \E u \in SseUsers, b \in CreateBodies : CreateManual(u, b)
  \/ \E u \in SseUsers, b \in PatchBodies : PatchSession(u, b)

SpecPatch == Init /\ [][PatchNext]_vars

(***************************************************************************)
(* taskController: addStatusChangeTimestamps over a task's life            *)
(***************************************************************************)
\* status changes applied to the task in one behaviour
MaxChanges == 6

\* addStatusChangeTimestamps(task, updateData) for updateData = { status }:
\* the fields the update sets, startedAt / completedAt being Absent when the
\* update leaves them alone
addStatusChangeTimestamps(task, status, now) ==
  LET none == [status |-> status, startedAt |-> Absent, completedAt |-> Absent]
  IN  IF status = task.status THEN none
      ELSE LET u1 == IF status = "in-progress" /\ task.status # "in-progress"
                     THEN [none EXCEPT !.startedAt = now] ELSE none
               u2 == IF status = "completed" /\ task.status # "completed"
                     THEN [u1 EXCEPT !.completedAt = now,
                                     !.startedAt = IF task.startedAt = NullTime
                                                   THEN now ELSE @]
                     ELSE u1
               u3 == IF status = "pending" /\ task.status = "in-progress"
                     THEN [u2 EXCEPT !.startedAt = NullTime] ELSE u2
               u4 == IF status = "pending" /\ task.status = "completed"
                     THEN [u3 EXCEPT !.completedAt = NullTime, !.startedAt = NullTime]
                     ELSE u3
           IN  u4

\* Task.findByIdAndUpdate(id, updateData): the fields of updateData are set
applyUpdate(task, u, now) ==
  [task EXCEPT !.status = u.status,
               !.startedAt = IF u.startedAt = Absent THEN @ ELSE u.startedAt,
               !.completedAt = IF u.completedAt = Absent THEN @ ELSE u.completedAt,
               !.updatedAt = now]

\* updateTaskStatus (and updateTask with a status) by the owner of the task
ChangeStatus(status) ==
  /\ tasks[TaskId].updatedAt < MaxChanges
  /\ LET task == tasks[TaskId]
         now == task.updatedAt + 1
     IN  /\ tasks' = [tasks EXCEPT ![TaskId] =
                        applyUpdate(task, addStatusChangeTimestamps(task, status, now), now)]
         /\ op' = [NoOp EXCEPT !.name = "updateTaskStatus", !.userId = task.userId,
                               !.http = 200, !.arg = <<task.status, status>>]
  /\ UNCHANGED <<clientsMap, pre, writes, calls, lastCall, groups, streams,
                 requests, users>>
  /\ ExtraUnchanged

\* a task that starts as pending with no timestamps
InitStamps ==
  /\ clientsMap = EmptyMap
  /\ op = NoOp
  /\ pre = EmptyMap
  /\ writes = <<>>
  /\ calls = <<>>
  /\ lastCall = NoCalls
  /\ streams = NoStreams
  /\ InitExtra
  /\ requests = NoRequests
  /\ users = NoUserDocs
  /\ groups = NoGroups
  /\ tasks = [t \in {TaskId} |->
                [userId |-> AllUserIds[1], status |-> "pending", startedAt |-> NullTime,
                 completedAt |-> NullTime, updatedAt |-> 0]]

StampsNext == \E st \in Statuses : ChangeStatus(st)

SpecStamps == InitStamps /\ [][StampsNext]_vars

(***************************************************************************)
(* Specification of the group-membership handlers                          *)
(***************************************************************************)
MembersNext ==
  \/ \E a \in Users, inv \in InvitedInputs : CreateGroup(a, inv)
  \/ \E a \in Users, u \in Users, r \in InviteRoles :
        /\ TeamTag \in DOMAIN groups => Len(groups[TeamTag].collaborators) < MaxMembers
        /\ InviteUser(a, u, r)
  \/ \E a \in Users : AcceptInvitation(a)
  \/ \E a \in Users : DeclineInvitation(a)
  \/ \E a \in Users : ExitGroup(a)
  \/ \E a \in Users, u \in Users : RemoveMember(a, u)
  \/ \E a \in Users, u \in Users, r \in RoleInputs : UpdateMemberRole(a, u, r)

SpecMembers == InitStore /\ [][MembersNext]_vars

(***************************************************************************)
(* Task assignment notifications: createTask, updateTask with store        *)
(* failures, deleteTask, one after another                                 *)
(***************************************************************************)

AssignBody(assignedTo) ==
  [field |-> "assignedTo", assignedTo |-> assignedTo, collaborators |-> <<>>,
   groupTag |-> "", status |-> ""]

\* the store failures of one updateTask: none, Group.findOne rejects, the
\* Notification write for one user rejects
NotifyFailures ==
  {NoFailure, [groupThrows |-> TRUE, storeFails |-> {}]}
  \cup {[groupThrows |-> FALSE, storeFails |-> {u}] : u \in Users}

\* the requests come from the first user, who creates the task
NotifyNext ==
  \/ \E as \in AssignInputs : CreateTask(AllUserIds[1], "", as, <<>>, FALSE)
  \/ \E as \in AssignInputs, f \in NotifyFailures :
        UpdateTaskWith(AllUserIds[1], AssignBody(as), f, AllOk)
  \/ DeleteTask(AllUserIds[1])

SpecNotify == InitTask /\ [][NotifyNext]_vars

(***************************************************************************)
(* dailySummaryJob.js and calculateAndStoreSummary                         *)
(***************************************************************************)
\* The cron callback, one await per step.  User.find is taken to succeed;
\* calculateAndStoreSummary resolves or rejects.

\* the day the callback fires on
JobDates == {"2026-01-01"}

JobId == "dailySummaryJob"

SummaryOutcomes == {"resolves", "rejects"}

SummariesOf(docs, userId, date) ==
  {i \in 1..Len(docs) : docs[i].userId = userId /\ docs[i].date = date}

\* variant: a plain insert in place of the upsert
storeSummaryInserts(docs, userId, date) ==
  Append(docs, [userId |-> userId, date |-> date, updated |-> FALSE])

\* DailySummary.findOneAndUpdate({ userId, date }, summaryData, { upsert: true });
\* updated tells an inserted document from one written again
storeSummary(docs, userId, date) ==
  IF SummariesOf(docs, userId, date) = {}
  THEN Append(docs, [userId |-> userId, date |-> date, updated |-> FALSE])
  ELSE [i \in 1..Len(docs) |->
          IF i \in SummariesOf(docs, userId, date)
          THEN [docs[i] EXCEPT !.updated = TRUE] ELSE docs[i]]

\* a rejection of TimeSession.find or of the upsert is thrown on, nothing stored
calculateAndStoreSummary(docs, userId, date, outcome) ==
  IF outcome = "resolves" THEN storeSummary(docs, userId, date) ELSE docs

\* User.find({ isActive: true }).select("auth0Id")
ActiveUsers(docs) ==
  LET IsActive(d) == d.isActive
      found == Filter(docs, IsActive)
  IN  [i \in 1..Len(found) |-> found[i].auth0Id]

JobRunning == JobId \in DOMAIN requests /\ requests[JobId].pc = "loop"

JobUnchanged ==
  /\ UNCHANGED <<clientsMap, pre, writes, calls, lastCall, groups, tasks, streams>>
  /\ DeliveryUnchanged
  /\ UNCHANGED <<sessions, plans, notifications>>

\* cron.schedule callback up to the loop
StartJob(date) ==
      /\ ~JobRunning
      /\ SetRequest(JobId, [pc |-> "loop", date |-> date,
                            active |-> ActiveUsers(users), attempted |-> <<>>,
                            successCount |-> 0, errorCount |-> 0])
      /\ op' = [NoOp EXCEPT !.name = "startJob"]
      /\ UNCHANGED <<users, summaries>>
      /\ JobUnchanged

\* one turn of `for (const user of users)`
SummariseUser(outcome) ==
  /\ JobRunning
  /\ Len(requests[JobId].attempted) < Len(requests[JobId].active)
  /\ LET job == requests[JobId]
         userId == job.active[Len(job.attempted) + 1]
     IN  /\ summaries' = calculateAndStoreSummary(summaries, userId, job.date, outcome)
         /\ SetRequest(JobId,
              [job EXCEPT !.attempted = Append(@, [userId |-> userId, outcome |-> outcome]),
                          !.successCount = IF outcome = "resolves" THEN @ + 1 ELSE @,
                          !.errorCount = IF outcome = "rejects" THEN @ + 1 ELSE @])
         /\ op' = [NoOp EXCEPT !.name = "calculateAndStoreSummary", !.userId = userId]
  /\ UNCHANGED users
  /\ JobUnchanged

\* the loop is over: the counts are logged
FinishJob ==
  /\ JobRunning
  /\ Len(requests[JobId].attempted) = Len(requests[JobId].active)
  /\ SetRequest(JobId, [requests[JobId] EXCEPT !.pc = "done"])
  /\ op' = [NoOp EXCEPT !.name = "finishJob"]
  /\ UNCHANGED <<users, summaries>>
  /\ JobUnchanged

\* the users stored, active or deactivated
InitJob ==
  /\ clientsMap = EmptyMap
  /\ op = NoOp
  /\ pre = EmptyMap
  /\ writes = <<>>
  /\ calls = <<>>
  /\ lastCall = NoCalls
  /\ streams = NoStreams
  /\ InitExtra
  /\ requests = NoRequests
  /\ groups = NoGroups
  /\ tasks = NoTasks
  /\ \E act \in [1..NumUsers -> BOOLEAN] :
        users = [i \in 1..NumUsers |-> [auth0Id |-> AllUserIds[i], isActive |-> act[i]]]

SummariseNext == \E outcome \in SummaryOutcomes : SummariseUser(outcome)

JobNext ==
  \/ \E date \in JobDates : StartJob(date)
  \/ SummariseNext
  \/ FinishJob

\* every await of the callback settles
SpecJob == InitJob /\ [][JobNext]_vars /\ WF_vars(SummariseNext) /\ WF_vars(FinishJob)

(***************************************************************************)
(* Properties of the registry and the publisher                            *)
(***************************************************************************)
IsSend == op.name = "sendEventToUser"

\* the channels the user of the last operation had before it
PreChannels == ChannelsOf(pre, op.userId)

\* channels on which a complete frame (both lines) was written
FramedChannels == {writes[i].res : i \in {j \in 1..Len(writes) :
                      writes[j].line = "data" /\ ~writes[j].threw}}

\* channels on which at least one write was attempted
TriedChannels == {writes[i].res : i \in 1..Len(writes)}

WritesTo(res, line) ==
  Cardinality({i \in 1..Len(writes) : writes[i].res = res /\ writes[i].line = line})

\* C1: sendEventToUser for a user without registered channels returns false,
\* leaves the registry as it was and writes to no channel of any user.
C1_NoChannelsNoEffect ==
  (IsSend /\ PreChannels = {}) =>
     (op.ret = FALSE /\ clientsMap = pre /\ writes = <<>>)

C1_Witness ==
  /\ IsSend
  /\ op.userId \in SseUsers
  /\ PreChannels = {}
  /\ pre # EmptyMap

\* C2: after any sequence of addClient / removeClient calls, a (user, channel)
\* pair is registered exactly when the last call for that pair was addClient,
\* and removeClient never throws, also for an absent channel or user.
C2_LastCallDecides ==
  /\ \A u \in SseUsers, r \in Channels :
        (r \in ChannelsOf(clientsMap, u)) <=> (lastCall[u, r] = "add")
  /\ ~op.threw

C2_Witness ==
  /\ op.name = "removeClient"
  /\ op.userId \in SseUsers
  /\ op.res \notin PreChannels
  /\ lastCall[op.userId, op.res] = "remove"
  /\ \E r \in Channels : r # op.res /\ lastCall[op.userId, r] = "add"

\* C3: no user is a key of the registry with an empty channel set, and
\* getConnectedUsers is exactly the users with at least one open channel.
C3_NoEmptyEntries ==
  /\ \A u \in DOMAIN clientsMap : clientsMap[u] # {}
  /\ getConnectedUsers(clientsMap) = {u \in SseUsers : ChannelsOf(clientsMap, u) # {}}

C3_Witness ==
  /\ op.name \in {"removeClient", "sendEventToUser"}
  /\ op.userId \in DOMAIN pre
  /\ op.userId \notin DOMAIN clientsMap
  /\ clientsMap # EmptyMap

\* the channels of the user on which a write of the last send threw
FailedChannels == {r \in PreChannels : op.out[r] # "ok"}

\* C4: when a write fails on some channel of U, every other channel of U is
\* still written to, the failing channels are gone from the registry and the
\* others stay; a send only ever writes to channels registered before it.
C4_FailureIsolated ==
  IsSend =>
    /\ TriedChannels = PreChannels
    /\ FramedChannels = PreChannels \ FailedChannels
    /\ ChannelsOf(clientsMap, op.userId) = PreChannels \ FailedChannels
    /\ \A u \in SseUsers \ {op.userId} : ChannelsOf(clientsMap, u) = ChannelsOf(pre, u)

C4_Witness ==
  /\ IsSend
  /\ FailedChannels # {}
  /\ PreChannels \ FailedChannels # {}
  /\ FramedChannels # {}

\* C5: sendEventToUser returns true exactly when at least one channel of the
\* user received the complete frame.
C5_ReturnsDelivered ==
  IsSend => (op.ret <=> (FramedChannels # {}))

C5_Witness ==
  /\ IsSend
  /\ PreChannels # {}
  /\ FailedChannels = PreChannels
  /\ op.ret = FALSE

\* C6: a send in which no write fails writes the frame (event line, then data
\* line) exactly once to every channel of the user and to no other channel.
C6_EachChannelOnce ==
  (IsSend /\ FailedChannels = {}) =>
     \A r \in Channels :
        /\ WritesTo(r, "event") = (IF r \in PreChannels THEN 1 ELSE 0)
        /\ WritesTo(r, "data") = (IF r \in PreChannels THEN 1 ELSE 0)
        /\ \A i \in 1..Len(writes) : writes[i].eventName = op.eventName

C6_Witness ==
  /\ IsSend
  /\ FailedChannels = {}
  /\ Cardinality(PreChannels) >= 2
  /\ \E u \in SseUsers \ {op.userId} : ChannelsOf(pre, u) # {}

(***************************************************************************)
(* Properties of the recipients the handlers publish to                    *)
(***************************************************************************)
\* the users the last handler published eventName to
PublishedTo(eventName) ==
  {calls[i].userId : i \in {j \in 1..Len(calls) : calls[j].eventName = eventName}}

\* number of sendEventToUser calls of the last handler for eventName
TimesPublished(eventName) ==
  Cardinality({i \in 1..Len(calls) : calls[i].eventName = eventName})

\* the last handler was a task handler that went through
TaskDone ==
  /\ op.name \in {"createTask", "updateTask", "updateTaskStatus", "deleteTask"}
  /\ op.http \in {200, 201}

\* owner of the task of the last task handler, its assignees before and after
TaskOwner == op.arg[1].userId

OldAssignees == Range(op.arg[1].old)

NewAssignees == Range(op.arg[1].new)

\* C7: no event of any kind caused by acting user A is published to A, also
\* when A is in the raw recipient list (A assigns a task to themselves).
C7_ActorNeverRecipient ==
  \A i \in 1..Len(calls) : calls[i].userId # op.userId

AcceptedMembers(tag) ==
  IF tag \in DOMAIN groups
  THEN {groups[tag].owner} \cup
       {groups[tag].collaborators[i].userId :
          i \in {j \in 1..Len(groups[tag].collaborators) :
                   groups[tag].collaborators[j].status = "accepted"}}
  ELSE {}

\* C9: the activity event of a group activity is published to exactly the
\* accepted members of its group (owner and accepted collaborators) without
\* the actor, once each; pending, declined and removed collaborators are not
\* published to, and a personal or non-grouped activity is published to nobody.
C9_AcceptedMembersOnly ==
  op.name = "createActivity" =>
    LET tag == op.arg[1]
        expected == IF tag \in {"", PersonalTag} THEN {}
                    ELSE AcceptedMembers(tag) \ {op.userId}
    IN  /\ PublishedTo("activity") = expected
        /\ Len(calls) = Cardinality(expected)

C9_Witness ==
  /\ op.name = "createActivity"
  /\ op.arg = <<TeamTag>>
  /\ TeamTag \in DOMAIN groups
  /\ \E i \in 1..Len(groups[TeamTag].collaborators) :
        /\ groups[TeamTag].collaborators[i].status \in {"pending", "declined"}
        /\ groups[TeamTag].collaborators[i].userId \notin AcceptedMembers(TeamTag)
        /\ groups[TeamTag].collaborators[i].userId # op.userId
  /\ \E i \in 1..Len(groups[TeamTag].collaborators) :
        /\ groups[TeamTag].collaborators[i].userId # groups[TeamTag].owner
        /\ groups[TeamTag].collaborators[i].userId \in PublishedTo("activity")

\* C10: an update that changes the assignees from Old to New publishes
\* notification once to each identity of New minus Old and
\* notification_removed once to each identity of Old minus New, and to no one
\* else; a deletion publishes notification_removed only to assignees.
C10_AddedAndRemoved ==
  /\ (TaskDone /\ op.name = "updateTask") =>
        /\ PublishedTo("notification") = NewAssignees \ OldAssignees
        /\ TimesPublished("notification") = Cardinality(NewAssignees \ OldAssignees)
        /\ PublishedTo("notification_removed") = OldAssignees \ NewAssignees
        /\ TimesPublished("notification_removed") = Cardinality(OldAssignees \ NewAssignees)
  /\ (TaskDone /\ op.name = "deleteTask") =>
        PublishedTo("notification_removed") \subseteq NewAssignees

(***************************************************************************)
(* Properties of the activity payload                                      *)
(***************************************************************************)
Emitted == op.name = "emitActivity"

\* the recipient of this call is the owner of the activity's group
ToGroupOwner(c) ==
  /\ op.arg[1].activity.groupTag \in DOMAIN groups
  /\ c.userId = groups[op.arg[1].activity.groupTag].owner

\* the actor's name as the owner is to see it: the real name of the stored
\* profile, its e-mail when it has no name; without a stored profile, the
\* name recorded on the activity
OwnerNames ==
  LET p == op.arg[1].stored.profile
  IN  IF op.arg[1].stored.found THEN {Or(p.name, p.email)}
      ELSE {op.arg[1].activity.userName}

\* C11: for an activity of an actor without custom picture, the payload of a
\* recipient who is not the group owner holds neither the actor's real name
\* nor a picture, and the payload of the group owner holds the real name (the
\* e-mail when there is no name) and no picture, whatever the actor lookup
\* returns (a profile, no profile, a failure).
C11_NameForOwnerOnly ==
  (Emitted /\ op.arg[1].stored.profile.customPicture = Null) =>
     \A i \in 1..Len(calls) :
        /\ calls[i].payload.userPicture = Null
        /\ IF ToGroupOwner(calls[i])
           THEN calls[i].payload.userName \in OwnerNames
           ELSE calls[i].payload.userName # RealName

\* C12: when the actor has a custom picture every payload carries it, and the
\* picture of a payload never comes from anywhere else (identity-provider
\* picture, activity record).
C12_CustomPictureOnly ==
  Emitted =>
     \A i \in 1..Len(calls) :
        /\ op.arg[1].stored.profile.customPicture # Null =>
              calls[i].payload.userPicture = op.arg[1].stored.profile.customPicture
        /\ calls[i].payload.userPicture \in {Null, op.arg[1].stored.profile.customPicture}

(***************************************************************************)
(* Properties of the handlers under failures                               *)
(***************************************************************************)
\* the request about to be handled
Request == op.arg[1]

\* a complete frame of eventName reaches every channel the user had before
\* the request, except a channel whose write throws
DeliveredNext(userId, eventName) ==
  \A r \in ChannelsOf(clientsMap, userId) :
     Request.out[r] = "ok" =>
        \E i \in 1..Len(writes') :
           /\ writes'[i].res = r
           /\ writes'[i].eventName = eventName
           /\ writes'[i].line = "data"
           /\ ~writes'[i].threw

PublishedNext(userId, eventName) ==
  /\ \E i \in 1..Len(calls') : calls'[i].userId = userId /\ calls'[i].eventName = eventName
  /\ DeliveredNext(userId, eventName)

\* the recipients an updateTask request has for each event kind
UpdateRecipients(eventName) ==
  IF eventName = "notification" THEN Range(Request.new) \ Range(Request.old)
  ELSE IF eventName = "notification_removed" THEN Range(Request.old) \ Range(Request.new)
  ELSE Range(Request.new) \ {Request.actor}

\* the update is committed and answered with 200
UpdateCommitted ==
  /\ op'.http = 200
  /\ tasks'[TaskId].assignedTo = Request.new

\* every recipient not hit by a failed Notification write is published to
UpdateOthersPublished ==
  \A ev \in {"notification", "notification_removed", "task_updated"} :
     \A u \in UpdateRecipients(ev) :
        (ev = "task_updated" \/ u \notin Request.fail.storeFails) => PublishedNext(u, ev)

\* createActivity answers 201, and unless the group lookup failed every
\* accepted member but the actor is published to
ActivityUnaffected ==
  /\ op'.http = 201
  /\ (Request.activity.groupTag = TeamTag /\ ~Request.groupThrows) =>
        \A u \in AcceptedMembers(TeamTag) \ {Request.activity.userId} :
           PublishedNext(u, "activity")

EmissionPending(q) ==
  requests[q].pc \in {"Group.findOne", "User.findOne", "Notification.write"}

Responded(q) == requests[q].http # 0

\* C14: emission is fire-and-forget: a handler has sent its HTTP response
\* whenever its emission is still waiting for a recipient or actor lookup, so
\* a lookup that never returns cannot hold the response back.
C14_ResponseNotHeldBack ==
  \A q \in DOMAIN requests : EmissionPending(q) => Responded(q)

\* the 'close' listener has just run for the first time, directly after the
\* stream was opened
ClosedDirectly ==
  /\ op.name = "closeStream"
  /\ op.arg[1].direct
  /\ op.arg[1].closes = 1

\* C15: a stream of user U that is opened and closed again before anything is
\* published leaves the registry exactly as it was before the connection; if U
\* had no other channel, U is no key of the registry and getConnectedUsers
\* does not list U.
C15_OpenCloseRoundTrip ==
  ClosedDirectly =>
    /\ clientsMap = op.arg[1].before
    /\ ChannelsOf(op.arg[1].before, op.userId) = {} =>
         /\ op.userId \notin DOMAIN clientsMap
         /\ op.userId \notin getConnectedUsers(clientsMap)

\* a stream opened and closed at once while another user is connected
C15_Witness ==
  /\ ClosedDirectly
  /\ ChannelsOf(op.arg[1].before, op.userId) = {}
  /\ op.arg[1].before # EmptyMap
  /\ op.userId \notin getConnectedUsers(clientsMap)

\* the 'close' listener of the channel has run
Disconnected(res) == Connected(res) /\ streams[res].closes > 0

\* C16: once the disconnect handler of a channel has run, the channel is in no
\* set of the registry, its heartbeat does not fire again and no publish writes
\* to it; a second disconnect of the same channel raises nothing and leaves
\* the registry as it was, other channels of the same user included.
C16_DisconnectIsFinal ==
  /\ \A r \in StreamChannels : Disconnected(r) =>
       /\ \A u \in DOMAIN clientsMap : r \notin clientsMap[u]
       /\ ~streams[r].timer
  /\ op.name = "heartbeat" => ~Disconnected(op.res)
  /\ op.name = "sendEventToUser" =>
       \A i \in DOMAIN writes : ~Disconnected(writes[i].res)
  /\ (op.name = "closeStream" /\ op.arg[1].closes = 2) =>
       /\ clientsMap = pre
       /\ ~op.threw

\* a second disconnect of a channel whose user still has another channel open
C16_Witness ==
  /\ op.name = "closeStream"
  /\ op.arg[1].closes = 2
  /\ ChannelsOf(clientsMap, op.userId) # {}
  /\ \E r \in StreamChannels : Connected(r) /\ streams[r].timer

\* the channel is in some set of the registry
Registered(res) == \E u \in DOMAIN clientsMap : res \in clientsMap[u]

\* C17: a channel whose heartbeat write has failed MaxPingFails times in a row
\* is unregistered and its heartbeat timer is stopped.
C17_FailedHeartbeatCleansUp ==
  \A r \in StreamChannels :
    (Connected(r) /\ streams[r].pingFails >= MaxPingFails) =>
      /\ ~Registered(r)
      /\ ~streams[r].timer

\* C18: the first frame written on every channel is the connected event with
\* the connecting user's own identity; it is written to the newly opened
\* channel only, and no published event is written to a channel before it.
C18_ConnectedFrameFirst ==
  /\ \A r \in StreamChannels : Connected(r) => streams[r].first \in {"connected", "none"}
  /\ \A r \in StreamChannels : Registered(r) => Connected(r) /\ streams[r].first = "connected"
  /\ op.name = "openStream" =>
       \A i \in DOMAIN writes :
         /\ writes[i].res = op.res
         /\ writes[i].eventName = "connected"
         /\ writes[i].userId = op.userId
         /\ op.userId = Owner(op.res)
  /\ op.name = "sendEventToUser" =>
       \A i \in DOMAIN writes : Connected(writes[i].res)
                                /\ streams[writes[i].res].first = "connected"

\* a stream opened by a user who has another channel, while another user is
\* connected as well
C18_Witness ==
  /\ op.name = "openStream"
  /\ ~op.threw
  /\ Len(writes) = 2
  /\ ChannelsOf(pre, op.userId) # {}
  /\ \E u \in DOMAIN pre : u # op.userId /\ pre[u] # {}

\* inviteUser has answered 200: op.arg[1] is the invited user
Invited == op.name = "inviteUser" /\ op.http = 200

\* C19: when a user is invited to a group, the invited user, and nobody else,
\* is published the notification event of the invitation.
C19_InvitedUserOnly ==
  Invited => PublishedTo("notification") = {op.arg[1]}

\* requests for auth0Id that have arrived
RequestsFor(auth0Id) == {q \in DOMAIN requests : requests[q].auth0Id = auth0Id}

\* C20: requests for the same never-seen auth0Id that run getOrCreateUser /
\* getOrCreateUserFromAuth concurrently never leave more than one User
\* document for it, and every request that has completed has completed with
\* that user, the one document for the auth0Id; a duplicate-key failure is
\* not surfaced.
C20_OneUserPerAuth0Id ==
  /\ \A u \in Users : Cardinality(DocsOf(users, u)) <= 1
  /\ \A q \in DOMAIN requests :
       /\ requests[q].result # "error"
       /\ requests[q].result = "user" =>
            /\ requests[q].user = requests[q].auth0Id
            /\ Cardinality(DocsOf(users, requests[q].auth0Id)) = 1

\* two requests for the same new auth0Id have completed, one of them after a
\* duplicate-key error
C20_Witness ==
  \E q1, q2 \in DOMAIN requests :
    /\ q1 # q2
    /\ requests[q1].auth0Id = requests[q2].auth0Id
    /\ requests[q1].result = "user"
    /\ requests[q2].result = "user"
    /\ requests[q2].reconciled
    /\ users[1].createdBy = q1

\* C21: delivery is at most once and nothing is replayed: every frame ever
\* written carries an event that was published while the channel was
\* registered for the recipient, so an event published to a user without a
\* channel reaches no channel registered later, and no frame is written twice
\* to one channel.
C21_AtMostOnceNoReplay ==
  /\ \A k \in DOMAIN frames :
       /\ frames[k] <= 1
       /\ frames[k] = 1 =>
            \E e \in emitted : e.eventName = k[2] /\ k[1] \in e.open
  /\ op.name = "sendEventToUser" =>
       \A i, j \in DOMAIN writes : writes[i] = writes[j] => i = j

\* an event was lost on a user without a channel, and a later event has been
\* written to a channel that user registered afterwards
C21_Witness ==
  \E e \in emitted :
    /\ e.open = {}
    /\ \E k \in DOMAIN frames :
         /\ frames[k] = 1
         /\ k[1] \in ChannelsOf(clientsMap, e.userId)
         /\ k[2] # e.eventName

\* the handlers of the group specification that create an Activity document
\* when they succeed
RecordingHandlers == {"acceptInvitation", "exitGroup", "removeMember", "createActivity"}

ActivityRecorded == op.name \in RecordingHandlers /\ op.http \in {200, 201}

\* C22: every successful mutation that records an activity publishes, or at
\* least tries to publish, an activity event to each accepted member of the
\* group other than the actor.
C22_EmissionAttempted ==
  ActivityRecorded =>
    LET tag == IF op.name = "createActivity" THEN op.arg[1] ELSE TeamTag
    IN  AcceptedMembers(tag) \ {op.userId} \subseteq PublishedTo("activity")

\* C23: a user never has more than one running session, also when start
\* requests of the same user interleave between their updateMany and their
\* create.
C23_OneRunningSession ==
  \A u \in SseUsers : Cardinality(Running(sessions, u)) <= 1

\* C24: once getOrCreateUser or getOrCreateUserFromAuth has completed for a
\* user whose stored isActive was false, the stored document has isActive true.
C24_StoredReactivated ==
  (op.name \in Provisioners /\ ~op.arg[1].doc.isActive) => users[1].isActive

\* stored plans and stopped sessions end after they start
WindowsOrdered ==
  /\ \A p \in DOMAIN plans : plans[p].endTime > plans[p].startTime
  /\ \A i \in DOMAIN sessions :
       sessions[i].endTime # NullTime => sessions[i].endTime > sessions[i].startTime

\* C25: a patchPlan or patchSession answered with 422 leaves the stored plan
\* or session as it was, and every stored plan and every stored session with
\* an endTime ends after it starts.
C25_RejectedPatchChangesNothing ==
  /\ (op.name \in {"patchPlan", "patchSession"} /\ op.http = 422) =>
       /\ plans = op.arg[1].plans
       /\ sessions = op.arg[1].sessions
  /\ WindowsOrdered

\* C26: after any sequence of status changes of a task that starts as pending
\* without timestamps, a pending task has neither startedAt nor completedAt,
\* and a task has a completedAt only while its status is completed.
C26_TimestampsFollowStatus ==
  LET task == tasks[TaskId]
  IN  /\ task.status = "pending" =>
           task.startedAt = NullTime /\ task.completedAt = NullTime
      /\ task.completedAt # NullTime => task.status = "completed"

\* userId has a collaborator entry with this status in the group document
HasStatus(store, userId, status) ==
  /\ TeamTag \in DOMAIN store
  /\ \E i \in 1..Len(store[TeamTag].collaborators) :
       /\ store[TeamTag].collaborators[i].userId = userId
       /\ store[TeamTag].collaborators[i].status = status

\* C27: acceptInvitation and declineInvitation answer 200 only to a caller
\* with a pending entry of their own, which becomes accepted (declined); any
\* other caller gets 404 and the group stays as it is; and in an existing
\* group nobody becomes accepted but by their own acceptInvitation.
C27_OwnPendingEntryOnly ==
  [][/\ op'.name \in {"acceptInvitation", "declineInvitation"} =>
          IF HasStatus(groups, op'.userId, "pending")
          THEN /\ op'.http = 200
               /\ ~HasStatus(groups', op'.userId, "pending")
               /\ HasStatus(groups', op'.userId,
                            IF op'.name = "acceptInvitation" THEN "accepted"
                            ELSE "declined")
          ELSE /\ op'.http = 404
               /\ groups' = groups
     /\ (TeamTag \in DOMAIN groups /\ TeamTag \in DOMAIN groups') =>
          \A u \in Users :
            (~HasStatus(groups, u, "accepted") /\ HasStatus(groups', u, "accepted")) =>
               /\ op'.name = "acceptInvitation"
               /\ op'.userId = u
               /\ HasStatus(groups, u, "pending")]_vars

NotifiedOf(docs, userId) ==
  {i \in 1..Len(docs) : docs[i].userId = userId /\ docs[i].taskId = TaskId}

\* C28: after updateTask removes a user from the assignees no task_assigned
\* notification of that user for the task remains, after a successful
\* deleteTask no task_assigned notification of the task remains, and no two
\* task_assigned notifications exist for the same user and task
C28_NotificationsTrackAssignment ==
  /\ \A u \in Users : Cardinality(NotifiedOf(notifications, u)) <= 1
  /\ (op.name = "updateTask" /\ op.http = 200) =>
        \A u \in Range(op.arg[1].old) \ Range(op.arg[1].new) :
           NotifiedOf(notifications, u) = {}
  /\ (op.name = "deleteTask" /\ op.http = 200) => notifications = NoDocs

OwnerIsAdmin(store) ==
  TeamTag \in DOMAIN store =>
     \E i \in 1..Len(store[TeamTag].collaborators) :
        store[TeamTag].collaborators[i] = Member(store[TeamTag].owner, "admin", "accepted")

OwnerTargeted ==
  /\ TeamTag \in DOMAIN groups
  /\ \/ op'.name = "exitGroup" /\ op'.userId = groups[TeamTag].owner
     \/ op'.name = "removeMember" /\ op'.arg = <<groups[TeamTag].owner>>

\* C29: exitGroup by the owner and removeMember targeting the owner, when the
\* group is found for the caller, answer 400 and leave the group unchanged,
\* and through inviteUser,
\* acceptInvitation, declineInvitation, exitGroup, removeMember and
\* updateMemberRole the owner field stays and the owner keeps an accepted
\* admin collaborator entry
C29_OwnerProtected ==
  [][/\ (OwnerTargeted /\ op'.http # 404) => (op'.http = 400 /\ groups' = groups)
     /\ (TeamTag \in DOMAIN groups /\ TeamTag \in DOMAIN groups') =>
           groups'[TeamTag].owner = groups[TeamTag].owner
     /\ OwnerIsAdmin(groups) => OwnerIsAdmin(groups')]_vars

JobDone == JobId \in DOMAIN requests /\ requests[JobId].pc = "done"

Attempts(job, userId) ==
  Cardinality({i \in 1..Len(job.attempted) : job.attempted[i].userId = userId})

JobCounts ==
  JobId \in DOMAIN requests =>
     LET job == requests[JobId]
     IN  /\ job.successCount + job.errorCount = Len(job.attempted)
         /\ job.errorCount =
               Cardinality({i \in 1..Len(job.attempted) : job.attempted[i].outcome = "rejects"})
         /\ \A u \in Users : Attempts(job, u) <= 1
         /\ \A u \in Users : Attempts(job, u) = 1 => u \in Range(job.active)
         /\ job.pc = "done" => \A u \in Range(job.active) : Attempts(job, u) = 1
         /\ \A i \in 1..Len(job.attempted) :
               job.attempted[i].outcome = "resolves" =>
                  Cardinality(SummariesOf(summaries, job.attempted[i].userId, job.date)) = 1

OneSummaryPerDay ==
  \A u \in Users, d \in JobDates : Cardinality(SummariesOf(summaries, u, d)) <= 1

====
